---- MODULE Spec2Model ----
(***************************************************************************)
(* Duty Manager: the schedule-generation engine.                           *)
(*                                                                         *)
(*   generateMeetingDates  (utils/dateUtils.js)                            *)
(*   generateSchedule, assignRoleToMeeting, scorePerson                    *)
(*                         (utils/scheduler.js)                            *)
(*                                                                         *)
(* A Date is a timestamp counted in ticks; TicksPerDay ticks make one      *)
(* calendar day, so a timestamp carries a time of day and                  *)
(* setHours(0,0,0,0) is a real normalisation.  Day 0 is a Sunday, so       *)
(* getDay(t) = (t \div TicksPerDay) % 7 with 0 = Sunday .. 6 = Saturday.   *)
(***************************************************************************)
EXTENDS Integers, Sequences, FiniteSets, TLC

VARIABLES
    pc,                 \* position of the call being modelled
    startDate,          \* argument: start date (timestamp)
    weeks,              \* argument: number of weeks
    cancelledDates,     \* argument: legacy cancelled dates (set of timestamps)
    settings,           \* argument: [midweek, weekend] weekday numbers
    omittedDates,       \* argument: omitted dates (set of timestamps)
    specialMeetings,    \* argument: sequence of [id, date, duties]
    meetingDates,       \* value returned by generateMeetingDates
    people,             \* argument: the caller's person records
    roles,              \* argument: the caller's role records
    existingSchedule,   \* argument: the meetings of the prior schedule, <<>> if none
    meetings,           \* the meetings of the schedule being generated
    peopleState,        \* the working person records
    scheduleAssignments,    \* meetingId -> (roleId -> personId)
    groupedRolePreferences, \* meetingId -> (roleId -> personId)
    conflicts,          \* the conflict records pushed so far
    meetingIndex,       \* loop variable i of generateSchedule (from 1)
    roleIndex,          \* position in sortedRoles, 0 before the meeting is begun
    schedule,           \* the schedule held by the application context
    storage,            \* the JSON text written by the last save
    zone,               \* the time zone of the environment, ticks east of UTC
    locked,             \* settings.meetingDays.locked
    result,             \* what the last call of updateMeetingDays returned
    file,               \* the JSON file last exported, or a file of an older version
    ops,                \* the user operations carried out so far, by name
    now,                \* the clock of the event loop, in milliseconds
    calls,              \* the calls of saveData so far, each with its timer and promise
    saveTimer,          \* api.js: the module variable saveTimer (0 for null)
    requests,           \* the POST requests issued to /api/save
    appTimer            \* dataManager.js: the timer of saveAppState

dateVars == <<startDate, weeks, cancelledDates, settings, omittedDates, specialMeetings>>

callerVars == <<people, roles, existingSchedule>>

workVars == <<meetings, peopleState, scheduleAssignments, groupedRolePreferences,
              conflicts, meetingIndex, roleIndex>>

storeVars == <<schedule, storage, zone>>

appVars == <<locked, result, file, ops>>

saveVars == <<now, calls, saveTimer, requests, appTimer>>

vars == <<pc, startDate, weeks, cancelledDates, settings, omittedDates,
          specialMeetings, meetingDates, people, roles, existingSchedule,
          meetings, peopleState, scheduleAssignments, groupedRolePreferences,
          conflicts, meetingIndex, roleIndex, schedule, storage, zone,
          locked, result, file, ops, now, calls, saveTimer, requests, appTimer>>

----------------------------------------------------------------------------
(* Bounds of the model *)

TicksPerDay == 2
MaxWeeks == 1
NumPeople == 3
NumRoles == 2
MaxPriorMeetings == 9
LongWeeks == 6
PoolSize == 2

----------------------------------------------------------------------------
(* Dates *)

NoPerson == 0
NoSpecial == 0

Min(a, b) == IF a < b THEN a ELSE b
Max(a, b) == IF a > b THEN a ELSE b

DayOf(t) == t \div TicksPerDay

\* date.setHours(0, 0, 0, 0)
setHoursZero(t) == DayOf(t) * TicksPerDay

\* date.getDay(): 0 = Sunday .. 6 = Saturday
getDay(t) == DayOf(t) % 7

\* date.setDate(date.getDate() + n)
addDays(t, n) == t + n * TicksPerDay

EmptyDuties == <<>>

\* omittedSet / cancelledSet: the normalised timestamps of a list of dates
NormalisedSet(dates) == { setHoursZero(d) : d \in dates }

\* Map.has / Map.get / Map.set / Map.delete on a Map kept as a sequence of
\* [key, val] in insertion order
MapHas(map, key) == \E k \in 1..Len(map) : map[k].key = key

MapGet(map, key) == map[CHOOSE k \in 1..Len(map) : map[k].key = key].val

MapSet(map, key, val) ==
    IF MapHas(map, key)
    THEN [k \in 1..Len(map) |->
             IF map[k].key = key THEN [key |-> key, val |-> val] ELSE map[k]]
    ELSE Append(map, [key |-> key, val |-> val])

\* the entry left in the map
MapDelete_kept(map, key) == map

MapDelete(map, key) == SelectSeq(map, LAMBDA e : e.key # key)

\* specialMeetingsMap: specialMeetings.forEach(sm => map.set(normalised date, sm))
RECURSIVE SpecialMeetingsMap(_, _)
SpecialMeetingsMap(sms, map) ==
    IF sms = <<>> THEN map
    ELSE SpecialMeetingsMap(Tail(sms),
                            MapSet(map, setHoursZero(Head(sms).date), Head(sms)))

\* while (currentDate.getDay() !== midweekDayNum) currentDate += 1 day
RECURSIVE FirstMidweek(_, _)
FirstMidweek(currentDate, midweekDayNum) ==
    IF getDay(currentDate) = midweekDayNum THEN currentDate
    ELSE FirstMidweek(addDays(currentDate, 1), midweekDayNum)

\* endDate.setDate(endDate.getDate() + weeks * 7)
EndDate(currentDate, wks) == addDays(currentDate, wks * 7)

\* the walk run up to and including endDate
WalkContinues_inclusive(currentDate, endDate) == currentDate <= endDate

\* the loop condition of the main walk
WalkContinues(currentDate, endDate) == currentDate < endDate

\* only the midweek day taken for a meeting day
IsMeetingDay_midweekOnly(dayOfWeek, midweekDayNum, weekendDayNum) ==
    dayOfWeek = midweekDayNum

\* dayOfWeek === midweekDayNum || dayOfWeek === weekendDayNum
IsMeetingDay(dayOfWeek, midweekDayNum, weekendDayNum) ==
    dayOfWeek = midweekDayNum \/ dayOfWeek = weekendDayNum

\* !cancelledSet.has(dateTime) && !omittedSet.has(dateTime)
NotSkipped(dateTime, cancelledSet, omittedSet) ==
    dateTime \notin cancelledSet /\ dateTime \notin omittedSet

\* the occurrence pushed for a special meeting found on a configured day
SpecialOnMeetingDay(currentDate, dayOfWeek, sm) ==
    [date |-> currentDate, day |-> dayOfWeek, type |-> "special",
     specialMeetingId |-> sm.id, duties |-> sm.duties]

\* the occurrence pushed for a regular meeting
RegularMeeting(currentDate, dayOfWeek) ==
    [date |-> currentDate, day |-> dayOfWeek, type |-> "regular",
     specialMeetingId |-> NoSpecial, duties |-> EmptyDuties]

\* while (currentDate < endDate) { ... currentDate += 1 day }
RECURSIVE Walk(_, _, _, _, _, _, _)
Walk(currentDate, endDate, mw, cancelledSet, omittedSet, map, acc) ==
    IF ~WalkContinues(currentDate, endDate)
    THEN [meetings |-> acc, map |-> map]
    ELSE LET dayOfWeek == getDay(currentDate)
             next == addDays(currentDate, 1)
         IN  IF IsMeetingDay(dayOfWeek, mw.midweek, mw.weekend)
                 /\ NotSkipped(currentDate, cancelledSet, omittedSet)
             THEN IF MapHas(map, currentDate)
                  THEN Walk(next, endDate, mw, cancelledSet, omittedSet,
                            MapDelete(map, currentDate),
                            Append(acc, SpecialOnMeetingDay(currentDate, dayOfWeek,
                                                            MapGet(map, currentDate))))
                  ELSE Walk(next, endDate, mw, cancelledSet, omittedSet, map,
                            Append(acc, RegularMeeting(currentDate, dayOfWeek)))
             ELSE Walk(next, endDate, mw, cancelledSet, omittedSet, map, acc)

\* if (smDate >= start && smDate < endDate)
InDateRange(smDate, start, endDate) == smDate >= start /\ smDate < endDate

\* the occurrence pushed for a special meeting left in the map after the walk
RemainingSpecial(smDate, sm) ==
    [date |-> smDate, day |-> getDay(smDate), type |-> "special",
     specialMeetingId |-> sm.id, duties |-> sm.duties]

\* specialMeetingsMap.forEach((sm, dateTime) => ...) after the walk
RECURSIVE AddRemainingSpecials(_, _, _, _)
AddRemainingSpecials(map, start, endDate, acc) ==
    IF map = <<>> THEN acc
    ELSE LET e == Head(map)
         IN  AddRemainingSpecials(Tail(map), start, endDate,
                 IF InDateRange(e.key, start, endDate)
                 THEN Append(acc, RemainingSpecial(e.key, e.val))
                 ELSE acc)

\* meetings.sort((a, b) => a.date - b.date): a stable sort by date
RECURSIVE InsertByDate(_, _)
InsertByDate(sorted, m) ==
    IF sorted = <<>> THEN <<m>>
    ELSE IF Head(sorted).date <= m.date
         THEN <<Head(sorted)>> \o InsertByDate(Tail(sorted), m)
         ELSE <<m>> \o sorted

RECURSIVE SortByDate(_, _)
SortByDate(ms, sorted) ==
    IF ms = <<>> THEN sorted
    ELSE SortByDate(Tail(ms), InsertByDate(sorted, Head(ms)))

\* the state of generateMeetingDates when the main walk has ended:
\* the occurrences pushed so far and what is left in specialMeetingsMap
MainWalk(start, wks, cancelled, mw, omitted, specials) ==
    LET first == FirstMidweek(setHoursZero(start), mw.midweek)
    IN  Walk(first, EndDate(first, wks), mw, NormalisedSet(cancelled),
             NormalisedSet(omitted), SpecialMeetingsMap(specials, <<>>), <<>>)

generateMeetingDates(start, wks, cancelled, mw, omitted, specials) ==
    LET first   == FirstMidweek(setHoursZero(start), mw.midweek)
        endDate == EndDate(first, wks)
        walked  == MainWalk(start, wks, cancelled, mw, omitted, specials)
        all     == AddRemainingSpecials(walked.map, start, endDate, walked.meetings)
    IN  SortByDate(all, <<>>)

----------------------------------------------------------------------------
(* The scheduler: people, roles, availability and scoring *)

PersonIds == 1..NumPeople
RoleIds == 1..NumRoles

NoDate == -1

Sum2(f, S) == LET RECURSIVE Acc(_)
                  Acc(T) == IF T = {} THEN 0
                            ELSE LET x == CHOOSE y \in T : TRUE
                                 IN  f[x] + Acc(T \ {x})
              IN  Acc(S)

\* createDuty({ personId, manuallyAssigned, hasConflict })
createDuty(personId, manuallyAssigned, hasConflict) ==
    [personId |-> personId, manuallyAssigned |-> manuallyAssigned,
     hasConflict |-> hasConflict]

\* createMeeting({ date, day, type, comment }): a fresh id and no duties
createMeeting(id, md) ==
    [id |-> id, date |-> md.date, day |-> md.day, type |-> md.type,
     duties |-> EmptyDuties]

\* if (meetingDate.duties && Object.keys(meetingDate.duties).length > 0)
\*     meetings[index].duties = { ...meetingDate.duties }
MergeSpecialDuties(meeting, md) ==
    IF DOMAIN md.duties # {}
    THEN [meeting EXCEPT !.duties = md.duties]
    ELSE meeting

\* a shallow copy: people.map(p => ({ ...p })) shares both nested objects
CopyPerson_shallow(p) ==
    [roles |-> p.roles, availability |-> p.availability,
     lastAssigned |-> p.lastAssigned, assignmentCount |-> p.assignmentCount,
     aliases |-> {"lastAssigned", "assignmentCount"}]

\* people.map(p => ({ ...p, lastAssigned: {...p.lastAssigned},
\*                    assignmentCount: {...p.assignmentCount} })):
\* "aliases" names the nested objects a working record shares with the
\* caller's record; both are copied, so none is shared
CopyPerson(p) ==
    [roles |-> p.roles, availability |-> p.availability,
     lastAssigned |-> p.lastAssigned, assignmentCount |-> p.assignmentCount,
     aliases |-> {}]

\* a write to person.lastAssigned[roleId]: it reaches the caller's record
\* when the working record shares that object with it
WriteLastAssigned(st, who, roleId, date) ==
    [state  |-> [st.state EXCEPT ![who].lastAssigned[roleId] = date],
     caller |-> IF "lastAssigned" \in st.state[who].aliases
                THEN [st.caller EXCEPT ![who].lastAssigned[roleId] = date]
                ELSE st.caller]

\* the count left as it was
IncrementCount_none(st, who, roleId) == st

\* person.assignmentCount[roleId] = (person.assignmentCount[roleId] || 0) + 1
IncrementCount(st, who, roleId) ==
    [state  |-> [st.state EXCEPT ![who].assignmentCount[roleId] = @ + 1],
     caller |-> IF "assignmentCount" \in st.state[who].aliases
                THEN [st.caller EXCEPT ![who].assignmentCount[roleId] = @ + 1]
                ELSE st.caller]

\* person.assignmentCount = {}: the working record gets an object of its own
ResetCounts(st) ==
    [state  |-> [p \in DOMAIN st.state |->
                    [st.state[p] EXCEPT !.assignmentCount = [r \in RoleIds |-> 0],
                                        !.aliases = @ \ {"assignmentCount"}]],
     caller |-> st.caller]

\* isSameWeek(date1, date2)
isSameWeek(date1, date2) ==
    IF date1 >= date2 THEN FALSE
    ELSE LET daysDiff == (date2 - date1) \div TicksPerDay
         IN  daysDiff = 3 /\ getDay(date1) = 4 /\ getDay(date2) = 0

\* the start of the block compared with its time of day left on
BlockContains_rawStart(block, checkDate) ==
    /\ checkDate >= block.startDate
    /\ checkDate <= setHoursZero(block.endDate)

\* checkDate >= startDate && checkDate <= endDate, all three at midnight
BlockContains(block, checkDate) ==
    /\ checkDate >= setHoursZero(block.startDate)
    /\ checkDate <= setHoursZero(block.endDate)

\* the availability blocks not looked at
isPersonAvailable_always(person, date) == TRUE

\* isPersonAvailable(person, date)
isPersonAvailable(person, date) ==
    LET checkDate == setHoursZero(date)
    IN  \A k \in 1..Len(person.availability) :
            ~BlockContains(person.availability[k], checkDate)

\* getDaysSinceLastAssignment(person, roleId, currentDate):
\* [never |-> TRUE] stands for Infinity
getDaysSinceLastAssignment(person, roleId, currentDate) ==
    IF person.lastAssigned[roleId] = NoDate
    THEN [never |-> TRUE, days |-> 0]
    ELSE [never |-> FALSE,
          days |-> (currentDate - person.lastAssigned[roleId]) \div TicksPerDay]

\* the first lookbackCount = Math.min(8, length) meetings from the end
LookbackCount == 8

\* the whole prior schedule replayed
LookbackMeetings_all(existingMeetings) == existingMeetings

LookbackMeetings(existingMeetings) ==
    LET n == Len(existingMeetings)
        lookbackCount == Min(LookbackCount, n)
    IN  SubSeq(existingMeetings, n - lookbackCount + 1, n)

\* a duty whose person is not found credited to the first person
LookbackDuty_firstPerson(st, meeting, roleId) ==
    LET duty == meeting.duties[roleId]
    IN  IF duty.personId # NoPerson
        THEN LET who  == IF duty.personId \in DOMAIN st.state THEN duty.personId ELSE 1
                 last == st.state[who].lastAssigned[roleId]
                 st1  == IF last = NoDate \/ last < meeting.date
                         THEN WriteLastAssigned(st, who, roleId, meeting.date)
                         ELSE st
             IN  IncrementCount(st1, who, roleId)
        ELSE st

\* the body of lookbackMeetings.forEach / Object.entries(meeting.duties).forEach
\* for one duty
LookbackDuty(st, meeting, roleId) ==
    LET duty == meeting.duties[roleId]
    IN  IF duty.personId # NoPerson /\ duty.personId \in DOMAIN st.state
        THEN LET who  == duty.personId
                 last == st.state[who].lastAssigned[roleId]
                 st1  == IF last = NoDate \/ last < meeting.date
                         THEN WriteLastAssigned(st, who, roleId, meeting.date)
                         ELSE st
             IN  IncrementCount(st1, who, roleId)
        ELSE st

RECURSIVE LookbackMeeting(_, _, _)
LookbackMeeting(st, meeting, roleIds) ==
    IF roleIds = {} THEN st
    ELSE LET r == CHOOSE x \in roleIds : \A y \in roleIds : x <= y
         IN  LookbackMeeting(LookbackDuty(st, meeting, r), meeting, roleIds \ {r})

RECURSIVE LookbackPhase(_, _)
LookbackPhase(st, lookbackMeetings) ==
    IF lookbackMeetings = <<>> THEN st
    ELSE LookbackPhase(
             LookbackMeeting(st, Head(lookbackMeetings),
                             DOMAIN Head(lookbackMeetings).duties),
             Tail(lookbackMeetings))

\* [...roles].sort((a, b) => a.peopleIds.length - b.peopleIds.length):
\* the role ids, smallest pool first, equal pools in the order of roles
RECURSIVE InsertBySize(_, _, _)
InsertBySize(sorted, rs, r) ==
    IF sorted = <<>> THEN <<r>>
    ELSE IF Cardinality(rs[Head(sorted)].peopleIds) <= Cardinality(rs[r].peopleIds)
         THEN <<Head(sorted)>> \o InsertBySize(Tail(sorted), rs, r)
         ELSE <<r>> \o sorted

RECURSIVE SortRoles(_, _, _)
SortRoles(rs, k, sorted) ==
    IF k > Len(rs) THEN sorted
    ELSE SortRoles(rs, k + 1, InsertBySize(sorted, rs, k))

\* the roles left in the order of the caller's array
sortedRoles_unsorted(rs) == [k \in 1..Len(rs) |-> k]

sortedRoles(rs) == SortRoles(rs, 1, <<>>)

\* Object.values(scheduleAssignments[meeting.id] || {}).includes(person.id)
alreadyAssigned(sa, meetingId, who) ==
    /\ meetingId \in DOMAIN sa
    /\ \E r \in DOMAIN sa[meetingId] : sa[meetingId][r] = who

\* groupedRolePreferences[meetingId]?.[roleId]
GroupedPreference(grp, meetingId, roleId) ==
    IF meetingId \in DOMAIN grp /\ roleId \in DOMAIN grp[meetingId]
    THEN grp[meetingId][roleId]
    ELSE NoPerson

\* peopleState.filter(person => role.peopleIds.includes(person.id))
eligiblePeople(role, pstate) == { p \in DOMAIN pstate : p \in role.peopleIds }

\* Object.values(person.assignmentCount).reduce((sum, count) => sum + count, 0)
totalAssignments(person) == Sum2(person.assignmentCount, DOMAIN person.assignmentCount)

\* scores are kept as integers: the score of the code times ScoreScale, a
\* multiple of every divisor the code divides by (the size of a pool, the
\* number of people, the number of roles of a person, 7)
RECURSIVE Factorial(_)
Factorial(n) == IF n <= 1 THEN 1 ELSE n * Factorial(n - 1)

ScoreScale == 7 * Factorial(Max(NumPeople, NumRoles))

BaseScore == 100
GroupingBonus == 1000
ConsecutiveWeeksPenalty == 500
RoleCountWeight == 30
TotalCountWeight == 60
RoleDeficitWeight == 100
NeverThisRoleBonus == 200
FirstAssignmentBonus == 30
RecencyPenaltyMax == 20
RecencyPerWeek == 3
NeverAssignedBonus == 30
SimilarScoreTolerance == 5

\* calculateAverageAssignments(role, peopleState), times ScoreScale
calculateAverageAssignments(role, pstate) ==
    LET eligible == eligiblePeople(role, pstate)
    IN  IF eligible = {} THEN 0
        ELSE Sum2([p \in eligible |-> pstate[p].assignmentCount[role.id]], eligible)
                 * (ScoreScale \div Cardinality(eligible))

\* calculateAverageTotalAssignments(peopleState), times ScoreScale
calculateAverageTotalAssignments(pstate) ==
    IF DOMAIN pstate = {} THEN 0
    ELSE Sum2([p \in DOMAIN pstate |-> totalAssignments(pstate[p])], DOMAIN pstate)
             * (ScoreScale \div Cardinality(DOMAIN pstate))

\* the continuity bonus never granted
GroupingTerm_noBonus(who, role, mIndex, ms, grp) == 0

\* Factor 1: the continuity bonus within the same week
GroupingTerm(who, role, mIndex, ms, grp) ==
    IF role.allowGrouping /\ mIndex > 1
    THEN LET previousMeeting == ms[mIndex - 1]
         IN  IF isSameWeek(previousMeeting.date, ms[mIndex].date)
                  /\ GroupedPreference(grp, previousMeeting.id, role.id) = who
             THEN GroupingBonus * ScoreScale
             ELSE 0
    ELSE 0

\* the look two meetings back begun one meeting too late
ConsecutiveWeeksTerm_lateStart(who, role, mIndex, ms, grp) ==
    IF role.allowGrouping /\ mIndex >= 4
    THEN LET twoMeetingsAgo == ms[mIndex - 2]
         IN  IF ~isSameWeek(twoMeetingsAgo.date, ms[mIndex].date)
                  /\ GroupedPreference(grp, twoMeetingsAgo.id, role.id) = who
             THEN 0 - ConsecutiveWeeksPenalty * ScoreScale
             ELSE 0
    ELSE 0

\* Factor 1b: the penalty for consecutive weeks
ConsecutiveWeeksTerm(who, role, mIndex, ms, grp) ==
    IF role.allowGrouping /\ mIndex >= 3
    THEN LET twoMeetingsAgo == ms[mIndex - 2]
         IN  IF ~isSameWeek(twoMeetingsAgo.date, ms[mIndex].date)
                  /\ GroupedPreference(grp, twoMeetingsAgo.id, role.id) = who
             THEN 0 - ConsecutiveWeeksPenalty * ScoreScale
             ELSE 0
    ELSE 0

\* Factor 2: score -= (assignmentCount - avgAssignments) * 30
RoleCountTerm(person, role, pstate) ==
    0 - RoleCountWeight *
          (person.assignmentCount[role.id] * ScoreScale
             - calculateAverageAssignments(role, pstate))

\* the difference to the average total added instead of subtracted
TotalCountTerm_added(person, pstate) ==
    TotalCountWeight *
        (totalAssignments(person) * ScoreScale
           - calculateAverageTotalAssignments(pstate))

\* Factor 3: score -= (totalAssignments - avgTotalAssignments) * 60
TotalCountTerm(person, pstate) ==
    0 - TotalCountWeight *
          (totalAssignments(person) * ScoreScale
             - calculateAverageTotalAssignments(pstate))

\* Factor 3b: the role diversity bonus, or the first-assignment bonus
DiversityTerm(person, role) ==
    LET numQualifiedRoles == Cardinality(person.roles)
        total == totalAssignments(person)
        thisRoleAssignments == person.assignmentCount[role.id]
    IN  IF numQualifiedRoles >= 2 /\ total >= 2
        THEN LET roleDeficit == total * (ScoreScale \div numQualifiedRoles)
                                  - thisRoleAssignments * ScoreScale
             IN  (IF roleDeficit > 0 THEN roleDeficit * RoleDeficitWeight ELSE 0)
                 + (IF thisRoleAssignments = 0 /\ total > 3
                    THEN NeverThisRoleBonus * ScoreScale ELSE 0)
        ELSE IF thisRoleAssignments = 0 /\ total = 0
             THEN FirstAssignmentBonus * ScoreScale
             ELSE 0

\* the recency term weighted ten times as much
RecencyTerm_heavy(person, role, date) ==
    LET daysSince == getDaysSinceLastAssignment(person, role.id, date)
    IN  IF ~daysSince.never
        THEN 0 - 10 * Max(0, RecencyPenaltyMax * ScoreScale
                               - daysSince.days * RecencyPerWeek * (ScoreScale \div 7))
        ELSE 10 * NeverAssignedBonus * ScoreScale

\* Factor 4: Math.max(0, 20 - (daysSince / 7) * 3) off, or 30 on when never assigned
RecencyTerm(person, role, date) ==
    LET daysSince == getDaysSinceLastAssignment(person, role.id, date)
    IN  IF ~daysSince.never
        THEN 0 - Max(0, RecencyPenaltyMax * ScoreScale
                          - daysSince.days * RecencyPerWeek * (ScoreScale \div 7))
        ELSE NeverAssignedBonus * ScoreScale

\* scorePerson({ person, role, meeting, mIndex, meetings, ... })
scorePerson(who, role, mIndex, ms, grp, pstate) ==
    BaseScore * ScoreScale
      + GroupingTerm(who, role, mIndex, ms, grp)
      + ConsecutiveWeeksTerm(who, role, mIndex, ms, grp)
      + RoleCountTerm(pstate[who], role, pstate)
      + TotalCountTerm(pstate[who], pstate)
      + DiversityTerm(pstate[who], role)
      + RecencyTerm(pstate[who], role, ms[mIndex].date)

\* the availability check alone
validPeople_availableOnly(eligible, meeting, pstate, sa) ==
    { p \in eligible : isPersonAvailable(pstate[p], meeting.date) }

\* the hard constraints: available, and not yet assigned in this meeting
validPeople(eligible, meeting, pstate, sa) ==
    { p \in eligible :
        /\ isPersonAvailable(pstate[p], meeting.date)
        /\ ~alreadyAssigned(sa, meeting.id, p) }

\* every valid person taken as a near tie
similarScorePeople_all(valid, score) == valid

\* validPeople.filter(p => Math.abs(p.score - topScore) < 5)
similarScorePeople(valid, score) ==
    LET topScore == CHOOSE t \in { score[p] : p \in valid } :
                        \A p \in valid : score[p] <= t
    IN  { p \in valid :
            /\ score[p] - topScore < SimilarScoreTolerance * ScoreScale
            /\ topScore - score[p] < SimilarScoreTolerance * ScoreScale }

\* the conflict record pushed for a role that stays unfilled
UnfilledConflict(meeting, role, details) ==
    [type |-> "unfilled", meetingId |-> meeting.id, roleId |-> role.id,
     details |-> details]

NoDetails == [unavailable |-> 0, doubleBooked |-> 0, total |-> 0]

\* the conflict record not pushed
ConflictsAfterUnfilled_dropped(cs, conflict) == cs

\* the conflicts array after assignRoleToMeeting found nobody to assign
ConflictsAfterUnfilled(cs, conflict) == Append(cs, conflict)

\* assignRoleToMeeting({ meeting, role, peopleState, ... }): every result
\* the call can have, each the duty returned and the conflicts array after it;
\* Math.random picks any member of similarScorePeople
assignRoleToMeeting(meeting, role, pstate, sa, ms, mIndex, grp, cs) ==
    LET eligible == eligiblePeople(role, pstate)
        valid    == validPeople(eligible, meeting, pstate, sa)
        score    == [p \in eligible |->
                        scorePerson(p, role, mIndex, ms, grp, pstate)]
    IN  IF eligible = {}
        THEN { [duty |-> createDuty(NoPerson, FALSE, TRUE),
                conflicts |-> ConflictsAfterUnfilled(cs,
                                  UnfilledConflict(meeting, role, NoDetails))] }
        ELSE IF valid = {}
        THEN LET unavailable  == { p \in eligible :
                                     ~isPersonAvailable(pstate[p], meeting.date) }
                 doubleBooked == { p \in eligible :
                                     alreadyAssigned(sa, meeting.id, p) }
             IN  { [duty |-> createDuty(NoPerson, FALSE, TRUE),
                    conflicts |-> ConflictsAfterUnfilled(cs,
                        UnfilledConflict(meeting, role,
                            [unavailable  |-> Cardinality(unavailable),
                             doubleBooked |-> Cardinality(doubleBooked),
                             total        |-> Cardinality(eligible)]))] }
        ELSE { [duty |-> createDuty(bestPerson, FALSE, FALSE), conflicts |-> cs] :
                 bestPerson \in similarScorePeople(valid, score) }

----------------------------------------------------------------------------
(* The inputs of the date generator *)

\* the last day a generation window can reach: a start in the first week,
\* at most six days to the first midweek day, then MaxWeeks weeks
LastDay == 12 + 7 * MaxWeeks

Midnight(day) == day * TicksPerDay
Late(day) == day * TicksPerDay + (TicksPerDay - 1)

\* a date at midnight or late in the day
Timestamps(days) ==
    { d * TicksPerDay + tod : d \in days, tod \in {0, TicksPerDay - 1} }

MeetingDayConfigs ==
    { [midweek |-> 4, weekend |-> 0],     \* Thursday / Sunday (the default)
      [midweek |-> 2, weekend |-> 6],     \* Tuesday / Saturday
      [midweek |-> 0, weekend |-> 3] }    \* Sunday / Wednesday

SpecialRecords(dates, dutySets) ==
    { <<>> } \cup { << [id |-> 1, date |-> d, duties |-> du] >> : d \in dates, du \in dutySets }

\* the time zone in which the application runs, one tick east of UTC
HomeZone == 1

\* the zones a saved file may be loaded in: the home zone, or UTC
Zones == {0, HomeZone}

\* useState(null) and an empty localStorage
NoSchedule == [present |-> FALSE, meetings |-> <<>>, conflicts |-> <<>>]

Thursday == 4
Sunday == 0

\* the meeting days as createSettings() gives them
DefaultMeetingDays == [midweek |-> Thursday, weekend |-> Sunday]

\* no saved data; the fields are those of dataToSave that the model follows
NoStorage ==
    [present |-> FALSE, version |-> "2.0", schedule |-> NoSchedule,
     hasSettings |-> FALSE, settings |-> DefaultMeetingDays, locked |-> FALSE]

StoreIdle == schedule = NoSchedule /\ storage = NoStorage /\ zone = HomeZone

\* no call of updateMeetingDays yet, nothing exported, no operation yet
AppIdle == result = "none" /\ file = NoStorage /\ ops = <<>>

\* setTimeout was never called
NoTimer == [armed |-> FALSE, deadline |-> 0, data |-> 0]

\* the modules api.js and dataManager.js as loaded: saveTimer = null
SaveIdle ==
    /\ now = 0 /\ calls = <<>> /\ saveTimer = 0 /\ requests = <<>>
    /\ appTimer = NoTimer

\* the working state before generateSchedule has run
WorkIdle ==
    /\ meetings = <<>> /\ peopleState = <<>>
    /\ scheduleAssignments = <<>> /\ groupedRolePreferences = <<>>
    /\ conflicts = <<>> /\ meetingIndex = 0 /\ roleIndex = 0

\* two special records, which may name the same calendar day
SpecialPairs(dates) ==
    { << [id |-> 1, date |-> d1, duties |-> EmptyDuties],
         [id |-> 2, date |-> d2, duties |-> EmptyDuties] >> : d1 \in dates, d2 \in dates }

\* every start date and configuration, with at most one skipped date and at
\* most one special record
InitDatesSingle ==
    /\ startDate \in Timestamps(0..6)
    /\ weeks \in 0..MaxWeeks
    /\ settings \in MeetingDayConfigs
    /\ \E skipped \in { {} } \cup { {d} : d \in Timestamps(0..LastDay) } :
          \E legacy \in BOOLEAN :
             /\ omittedDates = IF legacy THEN {} ELSE skipped
             /\ cancelledDates = IF legacy THEN skipped ELSE {}
    /\ specialMeetings \in SpecialRecords(Timestamps(0..LastDay), {EmptyDuties})

\* a start on a Tuesday or a Friday with two special records, the first
\* Thursday possibly omitted
InitDatesPair ==
    /\ startDate \in Timestamps({2, 5})
    /\ weeks = MaxWeeks
    /\ settings \in MeetingDayConfigs
    /\ omittedDates \in { {}, {Late(4)} }
    /\ cancelledDates = {}
    /\ specialMeetings \in SpecialPairs(Timestamps(0..LastDay))

InitDates ==
    /\ pc = "dates"
    /\ (InitDatesSingle \/ InitDatesPair)
    /\ meetingDates = <<>>
    /\ people = <<>> /\ roles = <<>> /\ existingSchedule = <<>>
    /\ WorkIdle /\ StoreIdle /\ AppIdle /\ SaveIdle
    /\ locked = FALSE

\* generateMeetingDates(startDate, weeks, cancelledDates, settings, omittedDates, specialMeetings)
CallGenerateMeetingDates ==
    /\ pc = "dates"
    /\ meetingDates' = generateMeetingDates(startDate, weeks, cancelledDates,
                                            settings, omittedDates, specialMeetings)
    /\ pc' = "datesReturned"
    /\ UNCHANGED <<dateVars, callerVars, workVars,
                   storeVars, appVars, saveVars>>

NextDates == CallGenerateMeetingDates

SpecDates == InitDates /\ [][NextDates]_vars

----------------------------------------------------------------------------
(* The inputs of generateSchedule *)

\* the day of the prior schedule's last meeting, a Sunday late enough for
\* MaxPriorMeetings meetings before it
PriorLastDay == 7 * ((MaxPriorMeetings + 2) \div 2)

\* the Thursday on which a plain generation starts
FirstDay == PriorLastDay + Thursday

\* role records over the given pools and grouping flags
RoleRecords(pools, grouping) ==
    [r \in RoleIds |->
        [id |-> r, allowGrouping |-> grouping[r], peopleIds |-> pools[r]]]

\* person records: person.roles agrees with the pools, as RoleForm keeps it
PersonRecords(rs, availability, stored) ==
    [p \in PersonIds |->
        [roles |-> { r \in DOMAIN rs : p \in rs[r].peopleIds },
         availability |-> availability[p],
         lastAssigned |-> stored[p].lastAssigned,
         assignmentCount |-> stored[p].assignmentCount]]

\* records as createPerson leaves them, and records that carry counts and
\* dates of earlier use
FreshStored ==
    [p \in PersonIds |->
        [lastAssigned |-> [r \in RoleIds |-> NoDate],
         assignmentCount |-> [r \in RoleIds |-> 0]]]

UsedStored ==
    [p \in PersonIds |->
        [lastAssigned |-> [r \in RoleIds |-> IF p = r THEN Late(1) ELSE NoDate],
         assignmentCount |-> [r \in RoleIds |-> IF p = r THEN 2 ELSE 0]]]

AlwaysAvailable == [p \in PersonIds |-> <<>>]

\* unavailability on exactly the first day (its start later in the day than
\* its end), or from the day before it through the following Sunday
FirstDayBlock == [startDate |-> Late(FirstDay), endDate |-> Midnight(FirstDay)]
FirstWeekBlock == [startDate |-> Late(FirstDay - 1), endDate |-> Late(FirstDay + 3)]

\* the first person may have either block, the last person the first-day
\* block, everybody else is always available
Availabilities ==
    { a \in [PersonIds -> { <<>>, <<FirstDayBlock>>, <<FirstWeekBlock>> }] :
        \A p \in PersonIds :
            /\ p > 1 => a[p] # <<FirstWeekBlock>>
            /\ p \notin {1, NumPeople} => a[p] = <<>> }

\* the pools a role can have: nobody, the first person alone, the last
\* person alone, the first with the last, all but the last, or everybody
Pools == { {}, {1}, {NumPeople}, {1, NumPeople}, 1..(NumPeople - 1), PersonIds }

\* the pool of a role in the longer scenarios: the first PoolSize people
FullPool == 1..PoolSize

\* no role grouped, or the first role alone
Groupings == { [r \in RoleIds |-> g /\ r = 1] : g \in BOOLEAN }

\* pre-seeded duties of a special meeting, keyed by configured roles
\* (none, the first role alone, or every role; the first person in each)
PreSeededDuties ==
    { EmptyDuties } \cup
    { [r \in rs |-> createDuty(1, TRUE, FALSE)] : rs \in { {1}, RoleIds } }

\* a prior schedule of n meetings on alternating Thursdays and Sundays that
\* ends on PriorLastDay; role 1 is held by first in the oldest meeting, by
\* last in the newest and by middle in between, every other role by other
PriorDate(n, k) ==
    LET j == n - k
    IN  Midnight(PriorLastDay - 7 * (j \div 2) - (IF j % 2 = 1 THEN 3 ELSE 0))

PriorSchedule(n, first, middle, last, other) ==
    [k \in 1..n |->
        [id |-> k, date |-> PriorDate(n, k),
         day |-> getDay(PriorDate(n, k)), type |-> "regular",
         duties |-> [r \in RoleIds |->
             LET who == IF r # 1 THEN other
                        ELSE IF k = 1 THEN first
                        ELSE IF k = n THEN last ELSE middle
             IN  createDuty(who, FALSE, who = NoPerson)]]]

Holders == {NoPerson, 1, NumPeople}

\* the id of a person who is no longer in the people list
FormerPerson == NumPeople + 1

\* a plain generation over every choice of pools and availability
InitPlain ==
    /\ startDate = Late(FirstDay)
    /\ weeks \in {0, MaxWeeks}
    /\ settings = DefaultMeetingDays
    /\ omittedDates = {} /\ cancelledDates = {} /\ specialMeetings = <<>>
    /\ existingSchedule = <<>>
    /\ \E pools \in [RoleIds -> Pools], av \in Availabilities,
          stored \in {FreshStored, UsedStored} :
          /\ roles = RoleRecords(pools, [r \in RoleIds |-> FALSE])
          /\ people = PersonRecords(roles, av, stored)

\* a generation with a special meeting (on the first Thursday, on the
\* Sunday after it, or on the Tuesday between the two weeks) that may carry
\* pre-seeded duties, and possibly an omitted first Thursday
InitSpecial ==
    /\ startDate = Midnight(FirstDay)
    /\ weeks = MaxWeeks
    /\ settings \in {DefaultMeetingDays, [midweek |-> 2, weekend |-> 6]}
    /\ omittedDates \in { {}, {Late(FirstDay)} }
    /\ cancelledDates = {}
    /\ specialMeetings \in
          SpecialRecords({Late(FirstDay), Midnight(FirstDay + 3), Midnight(FirstDay + 5)},
                         PreSeededDuties) \ { <<>> }
    /\ existingSchedule = <<>>
    /\ \E grouping \in Groupings, stored \in {FreshStored, UsedStored} :
          /\ roles = RoleRecords([r \in RoleIds |-> FullPool], grouping)
          /\ people = PersonRecords(roles, AlwaysAvailable, stored)

\* the extension of a prior schedule, as handleExtendSchedule calls it:
\* the start date is the day after the last prior meeting
InitExtension ==
    /\ startDate = Midnight(PriorLastDay + 1)
    /\ weeks = 1
    /\ settings = DefaultMeetingDays
    /\ omittedDates = {} /\ cancelledDates = {} /\ specialMeetings = <<>>
    /\ \E n \in 1..MaxPriorMeetings, first \in Holders, middle \in Holders,
          last \in Holders, other \in {NoPerson, 1, FormerPerson} :
          existingSchedule = PriorSchedule(n, first, middle, last, other)
    /\ \E grouping \in Groupings, stored \in {FreshStored, UsedStored} :
          /\ roles = RoleRecords([r \in RoleIds |-> FullPool], grouping)
          /\ people = PersonRecords(roles, AlwaysAvailable, stored)

\* the calendar day of the k-th occurrence of a Thursday/Sunday run that
\* starts on FirstDay
OccurrenceDay(k) == FirstDay + 7 * ((k - 1) \div 2) + (IF k % 2 = 0 THEN 3 ELSE 0)

\* unavailability from the day before the run through its k-th occurrence
LeaveBlock(k) ==
    [startDate |-> Late(FirstDay - 1), endDate |-> Late(OccurrenceDay(k))]

\* a leave over the first three occurrences, or up to the Thursday of the
\* last week of the longest run
LeaveLengths == {3, 2 * LongWeeks - 1}

\* a generation over up to LongWeeks weeks with a single role configured
\* (the first m people qualified, grouped or not); all of the pool but its
\* last person may start with a leave
InitLong ==
    /\ startDate = Midnight(FirstDay)
    /\ weeks \in 1..LongWeeks
    /\ settings = DefaultMeetingDays
    /\ omittedDates = {} /\ cancelledDates = {} /\ specialMeetings = <<>>
    /\ existingSchedule = <<>>
    /\ \E m \in 1..PoolSize, g \in BOOLEAN, leave \in {0} \cup LeaveLengths :
          /\ roles = SubSeq(RoleRecords([r \in RoleIds |-> 1..m],
                                        [r \in RoleIds |-> g]), 1, 1)
          /\ people = PersonRecords(roles,
                          [p \in PersonIds |->
                              IF leave > 0 /\ p < m THEN <<LeaveBlock(leave)>> ELSE <<>>],
                          FreshStored)

Init ==
    /\ pc = "start"
    /\ meetingDates = <<>>
    /\ WorkIdle /\ StoreIdle /\ AppIdle /\ SaveIdle
    /\ (InitPlain \/ InitSpecial \/ InitExtension \/ InitLong)
    /\ locked = (Len(existingSchedule) > 0)

----------------------------------------------------------------------------
(* generateSchedule *)

SetKey(f, key, val) ==
    [x \in DOMAIN f \cup {key} |-> IF x = key THEN val ELSE f[x]]

\* the ids in use: those of the prior meetings and of the schedule the
\* application holds, and those its conflict records name
UsedIds ==
    { existingSchedule[k].id : k \in 1..Len(existingSchedule) }
        \cup { schedule.meetings[k].id : k \in 1..Len(schedule.meetings) }
        \cup { schedule.conflicts[k].meetingId : k \in 1..Len(schedule.conflicts) }

\* uuidv4() for the k-th meeting created by a call: an id never used before
uuidv4(k) ==
    (IF UsedIds = {} THEN 0
     ELSE CHOOSE top \in UsedIds : \A id \in UsedIds : id <= top) + k

\* lines 25-54: the meeting dates, the meeting objects with the duties of
\* special meetings merged in, and the working copies of the people
Setup ==
    /\ pc = "start"
    /\ LET mds == generateMeetingDates(startDate, weeks, cancelledDates, settings,
                                       omittedDates, specialMeetings)
       IN  /\ meetingDates' = mds
           /\ meetings' = [k \in 1..Len(mds) |->
                  MergeSpecialDuties(
                      createMeeting(uuidv4(k), mds[k]), mds[k])]
    /\ peopleState' = [p \in DOMAIN people |-> CopyPerson(people[p])]
    /\ conflicts' = <<>>
    /\ pc' = "lookback"
    /\ UNCHANGED <<dateVars, callerVars, scheduleAssignments,
                   groupedRolePreferences, meetingIndex, roleIndex,
                   storeVars, appVars, saveVars>>

\* lines 56-96: the lookback phase of an extension, then the loop begins
Lookback ==
    /\ pc = "lookback"
    /\ LET st0 == [state |-> peopleState, caller |-> people]
           st  == IF Len(existingSchedule) > 0
                  THEN LookbackPhase(ResetCounts(st0),
                                     LookbackMeetings(existingSchedule))
                  ELSE st0
       IN  /\ peopleState' = st.state
           /\ people' = st.caller
    /\ scheduleAssignments' = <<>>
    /\ groupedRolePreferences' = <<>>
    /\ meetingIndex' = 1
    /\ roleIndex' = 0
    /\ pc' = "loop"
    /\ UNCHANGED <<dateVars, meetingDates, roles, existingSchedule, meetings, conflicts,
                   storeVars, appVars, saveVars>>

\* lines 98-106: scheduleAssignments[meeting.id] = {} and the roles sorted
StartMeeting ==
    /\ pc = "loop"
    /\ meetingIndex <= Len(meetings)
    /\ roleIndex = 0
    /\ scheduleAssignments' =
           SetKey(scheduleAssignments, meetings[meetingIndex].id, <<>>)
    /\ IF Len(roles) = 0
       THEN meetingIndex' = meetingIndex + 1 /\ roleIndex' = 0
       ELSE meetingIndex' = meetingIndex /\ roleIndex' = 1
    /\ UNCHANGED <<pc, dateVars, meetingDates, callerVars, meetings, peopleState,
                   groupedRolePreferences, conflicts,
                   storeVars, appVars, saveVars>>

\* lines 126-132: the person state after an assignment
RecordAssignment(st, duty, role, meeting) ==
    IF duty.personId # NoPerson /\ duty.personId \in DOMAIN st.state
    THEN IncrementCount(
             WriteLastAssigned(st, duty.personId, role.id, meeting.date),
             duty.personId, role.id)
    ELSE st

\* lines 134-140: the preference stored for a grouped role on the midweek day
RecordPreference(grp, duty, role, meeting, midweekDay) ==
    IF role.allowGrouping /\ meeting.day = midweekDay /\ duty.personId # NoPerson
    THEN SetKey(grp, meeting.id,
                SetKey(IF meeting.id \in DOMAIN grp THEN grp[meeting.id] ELSE <<>>,
                       role.id, duty.personId))
    ELSE grp

\* lines 109-142: one turn of the loop over sortedRoles
AssignRole ==
    /\ pc = "loop"
    /\ meetingIndex <= Len(meetings)
    /\ roleIndex \in 1..Len(roles)
    /\ LET meeting == meetings[meetingIndex]
           role    == roles[sortedRoles(roles)[roleIndex]]
       IN  \E res \in assignRoleToMeeting(meeting, role, peopleState,
                          scheduleAssignments, meetings, meetingIndex,
                          groupedRolePreferences, conflicts) :
              LET st == RecordAssignment([state |-> peopleState, caller |-> people],
                                         res.duty, role, meeting)
              IN  /\ meetings' = [meetings EXCEPT ![meetingIndex].duties =
                                      SetKey(@, role.id, res.duty)]
                  /\ scheduleAssignments' =
                         [scheduleAssignments EXCEPT ![meeting.id] =
                              SetKey(@, role.id, res.duty.personId)]
                  /\ peopleState' = st.state
                  /\ people' = st.caller
                  /\ groupedRolePreferences' =
                         RecordPreference(groupedRolePreferences, res.duty, role,
                                          meeting, settings.midweek)
                  /\ conflicts' = res.conflicts
    /\ IF roleIndex = Len(roles)
       THEN meetingIndex' = meetingIndex + 1 /\ roleIndex' = 0
       ELSE meetingIndex' = meetingIndex /\ roleIndex' = roleIndex + 1
    /\ UNCHANGED <<pc, dateVars, meetingDates, roles, existingSchedule,
                   storeVars, appVars, saveVars>>

\* lines 145-155: the schedule is returned
Return ==
    /\ pc = "loop"
    /\ meetingIndex > Len(meetings)
    /\ pc' = "returned"
    /\ UNCHANGED <<dateVars, meetingDates, callerVars, workVars,
                   storeVars, appVars, saveVars>>

\* a Date object held by the schedule of the application context
DateObject(t) == [time |-> t]

\* Date.prototype.toISOString, as JSON.stringify calls it: the instant in
\* UTC, whatever the local zone z in which the Date shows t
toISOString(t, z) == [iso |-> t - z]

\* new Date(isoString) read in the zone z: the local time of the instant
DateFromISO(str, z) == str.iso + z

\* new Date(meeting.date): the date of a schedule meeting is a Date
\* object, or an ISO string once the schedule came out of JSON.parse
NewDate(d, z) == IF "iso" \in DOMAIN d THEN DateFromISO(d, z) ELSE d.time

\* what JSON.stringify writes for a date: a string stays as it is
StringifyDate(d, z) == IF "iso" \in DOMAIN d THEN d ELSE toISOString(d.time, z)

\* JSON.stringify of a schedule: every Date becomes its ISO string, the
\* duties and conflicts are plain data
StringifySchedule(sch, z) ==
    [present   |-> sch.present,
     meetings  |-> [k \in 1..Len(sch.meetings) |->
                       [sch.meetings[k] EXCEPT !.date = StringifyDate(@, z)]],
     conflicts |-> sch.conflicts]

\* JSON.parse: no reviver, so the dates stay ISO strings
ParseSchedule(json) == json

\* JSON.stringify(dataToSave), JSON.stringify(getStateForExport())
StringifyState ==
    [present |-> TRUE, version |-> "2.0",
     schedule |-> StringifySchedule(schedule, zone),
     hasSettings |-> TRUE, settings |-> settings, locked |-> locked]

\* the meetings of a generated schedule, as the context holds them
ScheduleMeetings(ms) ==
    [k \in 1..Len(ms) |-> [ms[k] EXCEPT !.date = DateObject(@)]]

\* Schedule.jsx: setSchedule(newSchedule) and lockMeetingDays() after a
\* generation, setSchedule(mergedSchedule) after an extension
SetSchedule ==
    /\ pc = "returned"
    /\ IF Len(existingSchedule) = 0
       THEN /\ schedule' = [present   |-> TRUE,
                            meetings  |-> ScheduleMeetings(meetings),
                            conflicts |-> conflicts]
            /\ locked' = TRUE
       ELSE /\ schedule' = [present   |-> TRUE,
                            meetings  |-> (IF schedule.present
                                           THEN schedule.meetings
                                           ELSE ScheduleMeetings(existingSchedule))
                                              \o ScheduleMeetings(meetings),
                            conflicts |-> schedule.conflicts \o conflicts]
            /\ locked' = locked
    /\ pc' = "scheduled"
    /\ UNCHANGED <<dateVars, meetingDates, callerVars, workVars, storage, zone,
                   result, file, ops, saveVars>>

\* AppContext.jsx lines 86-103: the auto-save effect
AutoSave ==
    /\ pc = "scheduled"
    /\ Len(people) > 0 \/ Len(roles) > 0
    /\ storage' = StringifyState
    /\ pc' = "saved"
    /\ UNCHANGED <<dateVars, meetingDates, callerVars, workVars, schedule, zone,
                   appVars, saveVars>>

\* migrateData: a file older than version 2.0 that has no settings gets
\* the default ones, locked when its schedule has meetings
MigratedSettings(data) ==
    IF data.version # "2.0" /\ ~data.hasSettings
    THEN [settings |-> DefaultMeetingDays,
          locked   |-> data.schedule.present /\ Len(data.schedule.meetings) > 0]
    ELSE IF data.hasSettings
         THEN [settings |-> data.settings, locked |-> data.locked]
         ELSE [settings |-> DefaultMeetingDays, locked |-> FALSE]

\* AppContext.jsx lines 50-67: on mount the saved JSON is parsed and
\* becomes the state, in an environment whose zone may be another one
LoadFromJSON ==
    /\ pc = "saved"
    /\ storage.present
    /\ \E z \in Zones : zone' = z
    /\ schedule' = ParseSchedule(storage.schedule)
    /\ settings' = MigratedSettings(storage).settings
    /\ locked' = MigratedSettings(storage).locked
    /\ pc' = "loaded"
    /\ UNCHANGED <<startDate, weeks, cancelledDates, omittedDates, specialMeetings,
                   meetingDates, callerVars, workVars, storage,
                   result, file, ops, saveVars>>

Next ==
    \/ Setup \/ Lookback \/ StartMeeting \/ AssignRole \/ Return
    \/ SetSchedule \/ AutoSave \/ LoadFromJSON

Spec == Init /\ [][Next]_vars

----------------------------------------------------------------------------
(* The application: the operations of the Schedule, Settings and           *)
(* Import/Export pages on the state of AppContext                          *)

\* the number of user operations in a run of the application
MaxOps == 4

\* handleExtendSchedule: weeks: 4
ExtendWeeks == 4

\* new Date('YYYY-MM-DD') of the date input: midnight UTC of that day, seen
\* in the zone z
DateInput(day, z) == Midnight(day) + z

\* the start dates the user enters: the first Thursday, or the Saturday
\* after it
AppStartDays == {FirstDay, FirstDay + 2}

\* the days on which the user clears the historic meetings
AppTodays == {FirstDay + 1, FirstDay + 8}

\* the counts the user enters for deleting the last meetings
DeleteCounts == 1..3

\* a file written by a version before 2.0: a two-meeting schedule and no
\* settings
LegacyFile ==
    [present |-> TRUE, version |-> "1.0",
     schedule |-> StringifySchedule(
                      [present   |-> TRUE,
                       meetings  |-> ScheduleMeetings(
                                         PriorSchedule(2, 1, 1, 1, NoPerson)),
                       conflicts |-> <<>>], HomeZone),
     hasSettings |-> FALSE, settings |-> DefaultMeetingDays, locked |-> FALSE]

\* the application as it starts: nothing generated, one role with one
\* qualified person, who may be on leave over the first two occurrences
InitApp ==
    /\ pc = "idle"
    /\ startDate = DateInput(FirstDay, HomeZone) /\ weeks = MaxWeeks
    /\ settings = DefaultMeetingDays /\ locked = FALSE
    /\ cancelledDates = {} /\ specialMeetings = <<>>
    /\ omittedDates \in { {}, {Late(FirstDay + 3)} }
    /\ \E leave \in {0, 2} :
          /\ roles = SubSeq(RoleRecords([r \in RoleIds |-> {1}],
                                        [r \in RoleIds |-> FALSE]), 1, 1)
          /\ people = PersonRecords(roles,
                          [p \in PersonIds |->
                              IF leave > 0 /\ p = 1 THEN <<LeaveBlock(leave)>> ELSE <<>>],
                          FreshStored)
    /\ existingSchedule = <<>> /\ meetingDates = <<>>
    /\ WorkIdle /\ StoreIdle /\ SaveIdle
    /\ result = "none" /\ ops = <<>>
    /\ file \in {NoStorage, LegacyFile}

\* no handler is running and the user can carry out one more operation
AppAtRest == pc \in {"idle", "saved"} /\ Len(ops) < MaxOps

HasMeetings == schedule.present /\ Len(schedule.meetings) > 0

\* the arguments of a call of generateSchedule; the locals start afresh
CallGenerateSchedule(start, wks, existing) ==
    /\ startDate' = start /\ weeks' = wks /\ existingSchedule' = existing
    /\ meetingDates' = <<>>
    /\ meetings' = <<>> /\ peopleState' = <<>>
    /\ scheduleAssignments' = <<>> /\ groupedRolePreferences' = <<>>
    /\ conflicts' = <<>> /\ meetingIndex' = 0 /\ roleIndex' = 0
    /\ pc' = "start"
    /\ UNCHANGED <<cancelledDates, settings, omittedDates, specialMeetings,
                   people, roles, storeVars, locked, result, file, saveVars>>

\* Schedule.jsx lines 239-252: handleGenerateSchedule up to the call
HandleGenerateSchedule ==
    /\ AppAtRest
    /\ \E day \in AppStartDays :
          CallGenerateSchedule(DateInput(day, zone), MaxWeeks, <<>>)
    /\ ops' = Append(ops, "generate")

\* Schedule.jsx lines 276-300: handleExtendSchedule up to the call; the
\* call reads the date of every prior meeting through new Date
HandleExtendSchedule ==
    /\ AppAtRest
    /\ HasMeetings
    /\ LET lastMeeting == schedule.meetings[Len(schedule.meetings)]
       IN  CallGenerateSchedule(
               addDays(NewDate(lastMeeting.date, zone), 1), ExtendWeeks,
               [k \in 1..Len(schedule.meetings) |->
                   [schedule.meetings[k] EXCEPT !.date = NewDate(@, zone)]])
    /\ ops' = Append(ops, "extend")

\* the handlers below leave the call of generateSchedule as it ended
AppStep(name) ==
    /\ ops' = Append(ops, name)
    /\ UNCHANGED <<startDate, weeks, cancelledDates, omittedDates, specialMeetings,
                   meetingDates, callerVars, workVars, storage, zone, saveVars>>

\* AppContext.jsx lines 285-318: deleteLastMeetings with a valid count (an
\* invalid one returns false and changes nothing); the conflicts are
\* carried over by ...prevSchedule
DeleteLastMeetings ==
    /\ AppAtRest
    /\ HasMeetings
    /\ \E numToDelete \in DeleteCounts :
          /\ numToDelete <= Len(schedule.meetings)
          /\ LET remainingMeetings ==
                     SubSeq(schedule.meetings, 1,
                            Len(schedule.meetings) - numToDelete)
             IN  schedule' = IF remainingMeetings = <<>> THEN NoSchedule
                             ELSE [schedule EXCEPT !.meetings = remainingMeetings]
    /\ pc' = "scheduled"
    /\ AppStep("deleteLast")
    /\ UNCHANGED <<settings, locked, result, file>>

\* meeting.date before today, both at midnight
IsHistoric(meeting, today, z) == setHoursZero(NewDate(meeting.date, z)) < today

\* schedule.meetings.filter(meeting => meetingDate >= today)
FutureMeetings(ms, today, z) ==
    SelectSeq(ms, LAMBDA meeting : ~IsHistoric(meeting, today, z))

\* AppContext.jsx lines 320-372: clearHistoricMeetings when there are
\* historic meetings (otherwise it changes nothing)
ClearHistoricMeetings ==
    /\ AppAtRest
    /\ HasMeetings
    /\ \E day \in AppTodays :
          LET today          == Midnight(day)
              futureMeetings == FutureMeetings(schedule.meetings, today, zone)
          IN  /\ \E k \in 1..Len(schedule.meetings) :
                    IsHistoric(schedule.meetings[k], today, zone)
              /\ schedule' = IF futureMeetings = <<>> THEN NoSchedule
                              ELSE [schedule EXCEPT !.meetings = futureMeetings]
    /\ pc' = "scheduled"
    /\ AppStep("clearHistoric")
    /\ UNCHANGED <<settings, locked, result, file>>

\* Schedule.jsx lines 320-324: handleClearSchedule, confirmed
HandleClearSchedule ==
    /\ AppAtRest
    /\ schedule.present
    /\ schedule' = NoSchedule
    /\ pc' = "scheduled"
    /\ AppStep("clear")
    /\ UNCHANGED <<settings, locked, result, file>>

\* the lock test left out
MeetingDaysLocked_never == FALSE

\* settings.meetingDays.locked && schedule?.meetings?.length > 0
MeetingDaysLocked == locked /\ HasMeetings

\* AppContext.jsx lines 166-181: updateMeetingDays(midweek, weekend)
UpdateMeetingDays ==
    /\ AppAtRest
    /\ \E days \in MeetingDayConfigs :
          IF MeetingDaysLocked
          THEN /\ result' = "false"
               /\ UNCHANGED <<settings, pc>>
          ELSE /\ settings' = days
               /\ result' = "true"
               /\ pc' = "scheduled"
    /\ AppStep("updateMeetingDays")
    /\ UNCHANGED <<schedule, locked, file>>

\* ImportExport.jsx lines 17-28: the state is downloaded as a JSON file
ExportJSON ==
    /\ AppAtRest
    /\ file' = StringifyState
    /\ AppStep("export")
    /\ UNCHANGED <<pc, schedule, settings, locked, result>>

\* ImportExport.jsx lines 30-46 and AppContext.jsx lines 125-135: a file is
\* uploaded, parsed, migrated and becomes the state
UploadJSON ==
    /\ AppAtRest
    /\ file.present
    /\ schedule' = IF file.schedule.present THEN ParseSchedule(file.schedule)
                    ELSE NoSchedule
    /\ settings' = MigratedSettings(file).settings
    /\ locked' = MigratedSettings(file).locked
    /\ pc' = "scheduled"
    /\ AppStep("load")
    /\ UNCHANGED <<result, file>>

NextApp ==
    \/ HandleGenerateSchedule \/ HandleExtendSchedule
    \/ Setup \/ Lookback \/ StartMeeting \/ AssignRole \/ Return
    \/ SetSchedule \/ AutoSave
    \/ DeleteLastMeetings \/ ClearHistoricMeetings \/ HandleClearSchedule
    \/ UpdateMeetingDays \/ ExportJSON \/ UploadJSON

SpecApp == InitApp /\ [][NextApp]_vars

----------------------------------------------------------------------------
(* Properties of generateMeetingDates *)

SeqRange(s) == { s[k] : k \in 1..Len(s) }

DatesReturned == pc = "datesReturned"

SkippedDates == NormalisedSet(omittedDates) \cup NormalisedSet(cancelledDates)

\* the first day, on or after the start date's calendar day, that falls on
\* the midweek weekday, and the end of the weeks*7-day window it opens
WindowStart ==
    CHOOSE t \in { addDays(setHoursZero(startDate), j) : j \in 0..6 } :
        getDay(t) = settings.midweek

WindowEnd == addDays(WindowStart, weeks * 7)

\* the occurrences pushed after the main walk, from the special records
\* that the walk left in the map
EmittedAfterWalk ==
    AddRemainingSpecials(
        MainWalk(startDate, weeks, cancelledDates, settings, omittedDates,
                 specialMeetings).map,
        startDate, WindowEnd, <<>>)

\* C8: no returned occurrence has a date that is in the omitted set or the
\* legacy cancelled set; in particular when a special record has the date
\* of an omitted date nothing is emitted for that date.
C8_OmissionWins ==
    (DatesReturned /\ weeks >= 1) =>
        \A k \in 1..Len(meetingDates) : meetingDates[k].date \notin SkippedDates

\* C9: with two distinct weekdays and no omitted, cancelled or special
\* dates the result is exactly the dates on either configured weekday in
\* the weeks*7 days that begin at the first midweek day on or after the
\* start date: 2*weeks occurrences, the first on the midweek day, each
\* regular and tagged with its configured day.
C9_RegularPattern ==
    (DatesReturned /\ SkippedDates = {} /\ specialMeetings = <<>>
        /\ settings.midweek # settings.weekend) =>
        /\ { meetingDates[k].date : k \in 1..Len(meetingDates) } =
              { t \in { addDays(WindowStart, j) : j \in 0..(weeks * 7 - 1) } :
                    getDay(t) \in {settings.midweek, settings.weekend} }
        /\ Len(meetingDates) = 2 * weeks
        /\ weeks > 0 =>
              /\ meetingDates[1].date = WindowStart
              /\ meetingDates[1].day = settings.midweek
        /\ \A k \in 1..Len(meetingDates) :
              /\ meetingDates[k].type = "regular"
              /\ meetingDates[k].day = getDay(meetingDates[k].date)
              /\ meetingDates[k].day \in {settings.midweek, settings.weekend}

\* C9 witness: a start date that is not on the midweek weekday (and carries
\* a time of day) has produced both occurrences of a week.
C9_Witness ==
    /\ DatesReturned /\ SkippedDates = {} /\ specialMeetings = <<>>
    /\ weeks = 1 /\ Len(meetingDates) = 2
    /\ getDay(startDate) # settings.midweek
    /\ startDate # setHoursZero(startDate)
    /\ meetingDates[1].date > startDate

\* C10: every occurrence emitted from a special record after the main walk
\* is on neither configured weekday, lies in the generation window (first
\* midweek occurrence up to weeks*7 days later), is of kind 'special' and
\* is tagged with its actual weekday.
C10_RemainingSpecials ==
    (DatesReturned /\ weeks >= 1 /\ SkippedDates = {}) =>
        \A m \in SeqRange(EmittedAfterWalk) :
            /\ m \in SeqRange(meetingDates)
            /\ getDay(m.date) \notin {settings.midweek, settings.weekend}
            /\ WindowStart <= m.date /\ m.date < WindowEnd
            /\ m.type = "special"
            /\ m.day = getDay(m.date)

\* the occurrences returned for the calendar day of a timestamp
OccurrencesOn(t) ==
    { k \in 1..Len(meetingDates) : DayOf(meetingDates[k].date) = DayOf(t) }

\* C11: the returned sequence is in ascending order of date with at most
\* one occurrence per calendar date; a special record on a configured
\* weekday inside the walk, not skipped, yields exactly one occurrence of
\* its date, of kind 'special', and no date of a special record has a
\* regular occurrence or a second occurrence.
C11_SortedOnePerDate ==
    DatesReturned =>
        /\ \A k \in 1..(Len(meetingDates) - 1) :
              DayOf(meetingDates[k].date) < DayOf(meetingDates[k + 1].date)
        /\ \A j \in 1..Len(specialMeetings) :
              LET d == setHoursZero(specialMeetings[j].date)
              IN  /\ Cardinality(OccurrencesOn(d)) <= 1
                  /\ \A k \in OccurrencesOn(d) : meetingDates[k].type = "special"
                  /\ (/\ getDay(d) \in {settings.midweek, settings.weekend}
                      /\ WindowStart <= d /\ d < WindowEnd
                      /\ d \notin SkippedDates)
                        => Cardinality(OccurrencesOn(d)) = 1

\* C11 witness: two special records with the same calendar day, a
\* configured weekday inside the walk, were given and the day has its
\* special occurrence among the regular ones.
C11_Witness ==
    /\ DatesReturned /\ Len(specialMeetings) = 2
    /\ specialMeetings[1].date # specialMeetings[2].date
    /\ DayOf(specialMeetings[1].date) = DayOf(specialMeetings[2].date)
    /\ getDay(specialMeetings[1].date) = settings.weekend
    /\ OccurrencesOn(specialMeetings[1].date) # {}
    /\ \E k \in 1..Len(meetingDates) : meetingDates[k].type = "regular"
    /\ Len(meetingDates) = 2 * weeks


----------------------------------------------------------------------------
(* Properties of generateSchedule *)

Returned == pc = "returned"

Extending == Len(existingSchedule) > 0

UnfilledConflicts(meetingId, roleId) ==
    { k \in 1..Len(conflicts) :
        /\ conflicts[k].type = "unfilled"
        /\ conflicts[k].meetingId = meetingId
        /\ conflicts[k].roleId = roleId }

\* the date lies in none of the person's unavailability intervals, the
\* endpoints included, by calendar day
AvailableOnDay(person, date) ==
    \A k \in 1..Len(person.availability) :
        \/ DayOf(date) < DayOf(person.availability[k].startDate)
        \/ DayOf(date) > DayOf(person.availability[k].endDate)

\* the number of meetings of a sequence in which who holds roleId
HeldCount(ms, who, roleId) ==
    Cardinality({ k \in 1..Len(ms) :
        roleId \in DOMAIN ms[k].duties /\ ms[k].duties[roleId].personId = who })

C2_QualifiedAndAvailable ==
    Returned =>
        \A k \in 1..Len(meetings) : \A r \in DOMAIN roles :
            LET who == meetings[k].duties[r].personId
            IN  who # NoPerson =>
                    /\ who \in roles[r].peopleIds
                    /\ AvailableOnDay(people[who], meetings[k].date)

\* C2 witness: a person unavailable on the first day only is passed over
\* for the Thursday meeting and assigned on the Sunday after it.
C2_Witness ==
    /\ Returned /\ Len(meetings) >= 2
    /\ \E p \in PersonIds, r \in RoleIds :
          /\ people[p].availability = <<FirstDayBlock>>
          /\ roles[r].peopleIds = {p}
          /\ meetings[1].duties[r].personId = NoPerson
          /\ meetings[2].duties[r].personId = p

\* C3: the returned schedule has a duty for every role in every meeting; a
\* duty is null exactly when one unfilled conflict exists for its meeting
\* and role, a filled duty has none, and a role without qualified people is
\* null with one conflict in every meeting.
C3_UnfilledReported ==
    Returned =>
        \A k \in 1..Len(meetings) : \A r \in DOMAIN roles :
            LET n == Cardinality(UnfilledConflicts(meetings[k].id, r))
            IN  /\ r \in DOMAIN meetings[k].duties
                /\ (meetings[k].duties[r].personId = NoPerson) <=> (n = 1)
                /\ (meetings[k].duties[r].personId # NoPerson) => (n = 0)
                /\ (roles[r].peopleIds = {}) => (n = 1)

\* C3 witness: a schedule of two meetings is returned in which one role has
\* no qualified person and another stayed unfilled in the first meeting
\* because its only candidate was unavailable.
C3_Witness ==
    /\ Returned /\ Len(meetings) = 2 * MaxWeeks /\ Len(meetings) >= 2
    /\ \E r1, r2 \in DOMAIN roles :
          /\ roles[r1].peopleIds = {}
          /\ roles[r2].peopleIds # {}
          /\ meetings[1].duties[r2].personId = NoPerson
          /\ meetings[2].duties[r2].personId # NoPerson
    /\ Len(conflicts) = Len(meetings) + 1

ValidConfiguration ==
    /\ weeks >= 1
    /\ \A r \in DOMAIN roles : roles[r].peopleIds # {}

CallCanStep ==
    \/ pc \in {"start", "lookback"}
    \/ /\ pc = "loop"
       /\ \/ meetingIndex > Len(meetings)
          \/ roleIndex = 0
          \/ /\ roleIndex \in 1..Len(roles)
             /\ assignRoleToMeeting(meetings[meetingIndex],
                    roles[sortedRoles(roles)[roleIndex]], peopleState,
                    scheduleAssignments, meetings, meetingIndex,
                    groupedRolePreferences, conflicts) # {}

C5_CallerUnchanged ==
    [][people' = people /\ roles' = roles /\ existingSchedule' = existingSchedule]_vars

\* C5 witness: an extension run has returned with working counts and dates
\* that differ from the ones on the caller's records.
C5_Witness ==
    /\ Returned /\ Extending
    /\ \E p \in PersonIds, r \in RoleIds :
          /\ people[p].assignmentCount[r] > 0
          /\ peopleState[p].assignmentCount[r] # people[p].assignmentCount[r]
          /\ peopleState[p].lastAssigned[r] # people[p].lastAssigned[r]

\* C6: at the end of an extension run each person's per-role count is the
\* number of duties held in the last min(8, n) prior meetings plus the
\* number of duties assigned in this run; stored counts and earlier prior
\* meetings contribute nothing.
C6_LookbackCounts ==
    (Returned /\ Extending) =>
        LET n == Len(existingSchedule)
            window == SubSeq(existingSchedule, n - Min(8, n) + 1, n)
        IN  \A p \in PersonIds, r \in RoleIds :
                peopleState[p].assignmentCount[r] =
                    HeldCount(window, p, r) + HeldCount(meetings, p, r)

\* C6 witness: the prior schedule is longer than the window, its oldest
\* meeting gave role 1 to a person whose record also carried a stored
\* count, and the run assigned that person again.
C6_Witness ==
    /\ Returned /\ Len(existingSchedule) > 8
    /\ existingSchedule[1].duties[1].personId = 1
    /\ people[1].assignmentCount[1] > 0
    /\ HeldCount(meetings, 1, 1) > 0
    /\ peopleState[1].assignmentCount[1] <
           HeldCount(existingSchedule, 1, 1) + HeldCount(meetings, 1, 1)

\* the date of the most recent prior meeting in which who held roleId
MostRecentHeld(who, roleId) ==
    LET held == { k \in 1..Len(existingSchedule) :
                    existingSchedule[k].duties[roleId].personId = who }
    IN  IF held = {} THEN NoDate
        ELSE existingSchedule[CHOOSE k \in held : \A j \in held : j <= k].date

LoopStart == pc = "loop" /\ meetingIndex = 1 /\ roleIndex = 0

\* C7: when the assignment loop of an extension starts, the last-assigned
\* date of every person and role is not older than the most recent meeting
\* of the entire prior schedule in which the person held the role, so
\* nobody who held the role there counts as never assigned.
C7_RecencyAcrossHistory ==
    (LoopStart /\ Extending) =>
        \A p \in PersonIds, r \in RoleIds :
            MostRecentHeld(p, r) # NoDate =>
                /\ ~getDaysSinceLastAssignment(peopleState[p], r, startDate).never
                /\ peopleState[p].lastAssigned[r] >= MostRecentHeld(p, r)

----------------------------------------------------------------------------
(* Properties of the scoring *)

\* the loop is about to assign the role at roleIndex in the current meeting
AssigningRole ==
    pc = "loop" /\ meetingIndex <= Len(meetings) /\ roleIndex \in 1..Len(roles)

CurrentMeeting == meetings[meetingIndex]

CurrentRole == roles[sortedRoles(roles)[roleIndex]]

\* the people who pass the hard constraints for the current role
CurrentValid ==
    validPeople(eligiblePeople(CurrentRole, peopleState), CurrentMeeting,
                peopleState, scheduleAssignments)

CurrentScore(p) ==
    scorePerson(p, CurrentRole, meetingIndex, meetings, groupedRolePreferences,
                peopleState)

\* who holds the current role in the meeting back positions earlier
HolderBack(back) ==
    IF meetingIndex > back
           /\ CurrentRole.id \in DOMAIN meetings[meetingIndex - back].duties
    THEN meetings[meetingIndex - back].duties[CurrentRole.id].personId
    ELSE NoPerson

\* calendar weeks run from Monday to Sunday
CalendarWeek(t) == (DayOf(t) + 6) \div 7

SameCalendarWeek(t1, t2) == CalendarWeek(t1) = CalendarWeek(t2)

\* a grouped role is being assigned, the preceding occurrence is in the
\* same calendar week and its holder passes the hard constraints
ContinuityCase ==
    /\ AssigningRole /\ CurrentRole.allowGrouping /\ meetingIndex > 1
    /\ SameCalendarWeek(meetings[meetingIndex - 1].date, CurrentMeeting.date)
    /\ HolderBack(1) # NoPerson
    /\ HolderBack(1) \in CurrentValid

\* the person the step assigns to the current role
AssignedNow == meetings'[meetingIndex].duties[CurrentRole.id].personId

C13_BonusForAnyPair ==
    (/\ AssigningRole /\ CurrentRole.allowGrouping /\ meetingIndex > 1
     /\ settings.midweek # settings.weekend
     /\ meetings[meetingIndex - 1].day = settings.midweek
     /\ CurrentMeeting.day = settings.weekend
     /\ SameCalendarWeek(meetings[meetingIndex - 1].date, CurrentMeeting.date)
     /\ HolderBack(1) # NoPerson)
        => GroupingTerm(HolderBack(1), CurrentRole, meetingIndex, meetings,
                        groupedRolePreferences) = GroupingBonus * ScoreScale

\* a grouped role is being assigned, the occurrence two positions back is
\* in a different calendar week and somebody held the role on it
AntiRepeatCase ==
    /\ AssigningRole /\ CurrentRole.allowGrouping /\ meetingIndex >= 3
    /\ ~SameCalendarWeek(meetings[meetingIndex - 2].date, CurrentMeeting.date)
    /\ HolderBack(2) # NoPerson

\* the anti-repeat term in the score of the holder of two occurrences back
AntiRepeatOfHolder ==
    ConsecutiveWeeksTerm(HolderBack(2), CurrentRole, meetingIndex, meetings,
                         groupedRolePreferences)

\* C14 (as claimed): whenever the occurrence two positions back is in a
\* different week and the candidate held the grouped role on it, the
\* candidate's score carries the anti-repeat penalty, whichever day the
\* two occurrences fall on.
C14_PenaltyWhicheverDay ==
    AntiRepeatCase => AntiRepeatOfHolder = 0 - ConsecutiveWeeksPenalty * ScoreScale

\* C14 (amended): the holder of the occurrence two positions back, in a
\* different week, carries the penalty of 500 exactly when that occurrence
\* fell on the configured midweek day, whichever day the current
\* occurrence falls on and however omitted dates or special occurrences
\* shift the sequence; the holder of an occurrence on another day carries
\* no penalty.
C14_PenaltyFromMidweek ==
    AntiRepeatCase =>
        IF meetings[meetingIndex - 2].day = settings.midweek
        THEN AntiRepeatOfHolder = 0 - ConsecutiveWeeksPenalty * ScoreScale
        ELSE AntiRepeatOfHolder = 0

\* C14 witness: a special occurrence shifted the sequence, so that the
\* third occurrence, not on a meeting day, looks back at the midweek
\* occurrence of the week before, whose holder carries the penalty.
C14_Witness ==
    /\ AntiRepeatCase /\ meetingIndex = 3
    /\ CurrentMeeting.type = "special"
    /\ CurrentMeeting.day \notin {settings.midweek, settings.weekend}
    /\ meetings[1].day = settings.midweek
    /\ AntiRepeatOfHolder < 0

----------------------------------------------------------------------------
(* Fairness of generateSchedule *)

\* the roles that have qualified people
StaffedRoles == { r \in DOMAIN roles : roles[r].peopleIds # {} }

\* a generation from scratch: no prior schedule, no special occurrence, no
\* stored counts or dates
FromScratch ==
    /\ existingSchedule = <<>> /\ specialMeetings = <<>>
    /\ \A p \in PersonIds, r \in RoleIds :
          people[p].assignmentCount[r] = 0 /\ people[p].lastAssigned[r] = NoDate

\* the largest per-person count of a role less the smallest, over the
\* role's qualified people
CountSpread(r) ==
    LET counts == { peopleState[p].assignmentCount[r] : p \in roles[r].peopleIds }
    IN  (CHOOSE c \in counts : \A d \in counts : d <= c)
          - (CHOOSE c \in counts : \A d \in counts : c <= d)

LeaveScenario(a, b) ==
    /\ FromScratch /\ Len(roles) = 1 /\ a # b
    /\ roles[1].peopleIds = {a, b}
    /\ Len(meetings) = 8
    /\ people[b].availability = <<>>
    /\ \A k \in 1..8 : AvailableOnDay(people[a], meetings[k].date) <=> k > 3

\* C16: with one role, two qualified people A and B, 8 occurrences and A
\* unavailable on the first 3, B holds the first 3 occurrences, no
\* conflict is recorded, and over the 8 occurrences A holds at least 2 and
\* B at most 6, for every tie-break choice.
C16_LeaveScenario ==
    \A a, b \in PersonIds :
        (Returned /\ LeaveScenario(a, b)) =>
            /\ \A k \in 1..3 : meetings[k].duties[1].personId = b
            /\ conflicts = <<>>
            /\ HeldCount(meetings, a, 1) >= 2
            /\ HeldCount(meetings, b, 1) <= 6
            /\ HeldCount(meetings, a, 1) + HeldCount(meetings, b, 1) = 8

\* C16 witness: the scenario has run with a grouped role and ended at
\* the edge of the claim, 2 occurrences for A and 6 for B.
C16_Witness ==
    /\ Returned
    /\ \E a, b \in PersonIds :
          /\ LeaveScenario(a, b)
          /\ HeldCount(meetings, a, 1) = 2
          /\ HeldCount(meetings, b, 1) = 6

----------------------------------------------------------------------------
(* The lookback over a prior schedule *)

\* the trailing meetings of the prior schedule that the lookback replays
LookbackWindow ==
    LET n == Len(existingSchedule)
    IN  SubSeq(existingSchedule, n - Min(8, n) + 1, n)

\* a duty of the window names a person who is not in the people list
HasFormerDuty ==
    \E k \in 1..Len(LookbackWindow) : \E r \in DOMAIN LookbackWindow[k].duties :
        LookbackWindow[k].duties[r].personId \notin (DOMAIN people \cup {NoPerson})

\* the date of the latest meeting of ms in which who held roleId
LatestHeld(ms, who, roleId) ==
    LET held == { k \in 1..Len(ms) : ms[k].duties[roleId].personId = who }
    IN  IF held = {} THEN NoDate
        ELSE ms[CHOOSE k \in held : \A j \in held : ms[j].date <= ms[k].date].date

\* C17: when a duty in the lookback window names a person who is not in
\* the people list, the extension run goes on to its return, and at the
\* start of the loop every person's counts and last-assigned dates are
\* those of the window's duties held by people of the list alone.
C17_UnknownPersonSkipped ==
    (Extending /\ HasFormerDuty) =>
        /\ (pc \in {"start", "lookback", "loop"}) => CallCanStep
        /\ LoopStart =>
              /\ DOMAIN peopleState = DOMAIN people
              /\ \A p \in PersonIds, r \in RoleIds :
                    /\ peopleState[p].assignmentCount[r] =
                           HeldCount(LookbackWindow, p, r)
                    /\ peopleState[p].lastAssigned[r] =
                           Max(people[p].lastAssigned[r],
                               LatestHeld(LookbackWindow, p, r))

\* C17 witness: an extension has returned whose window held duties of a
\* former person beside duties of a person of the list.
C17_Witness ==
    /\ Returned /\ Extending /\ HasFormerDuty
    /\ HeldCount(LookbackWindow, 1, 1) > 0
    /\ Len(meetings) > 0

----------------------------------------------------------------------------
(* Special occurrences in generateSchedule *)

\* C18: in the returned schedule every meeting made from a special
\* occurrence with pre-seeded duties still holds, for each pre-seeded
\* role, the pre-seeded person.
C18_PreSeededPreserved ==
    Returned =>
        \A k \in 1..Len(meetings) : \A r \in DOMAIN meetingDates[k].duties :
            /\ r \in DOMAIN meetings[k].duties
            /\ meetings[k].duties[r].personId = meetingDates[k].duties[r].personId

----------------------------------------------------------------------------
(* Completeness of the assignment *)

\* the people who may hold role r in meeting k: qualified and available
MayHold(k, r) ==
    { p \in roles[r].peopleIds \cap DOMAIN people :
        AvailableOnDay(people[p], meetings[k].date) }

\* some assignment gives every role of meeting k a qualified, available
\* person and no person two roles
Fillable(k) ==
    \E f \in [DOMAIN roles -> DOMAIN people] :
        /\ \A r \in DOMAIN roles : f[r] \in MayHold(k, r)
        /\ \A r1, r2 \in DOMAIN roles : r1 # r2 => f[r1] # f[r2]

\* C19: whenever a meeting can be filled by pairwise distinct, qualified
\* and available people, the returned schedule fills every role of that
\* meeting and records no unfilled conflict for it.
C19_FillsWhenFillable ==
    Returned =>
        \A k \in 1..Len(meetings) :
            Fillable(k) =>
                \A r \in DOMAIN roles :
                    /\ meetings[k].duties[r].personId # NoPerson
                    /\ UnfilledConflicts(meetings[k].id, r) = {}

----------------------------------------------------------------------------
(* Saving and loading *)

Loaded == pc = "loaded"

\* the schedule as it was when it was saved
SavedSchedule == existingSchedule \o meetings

\* the calendar day a loaded meeting shows
LoadedDay(k) == DayOf(DateFromISO(schedule.meetings[k].date, zone))

\* C20: the schedule loaded from the saved JSON has the same meetings in
\* the same order on the same calendar days, the same duties (personId,
\* manuallyAssigned, hasConflict) and the same conflicts as the schedule
\* that was saved.
C20_RoundTrip ==
    Loaded =>
        /\ schedule.present
        /\ Len(schedule.meetings) = Len(SavedSchedule)
        /\ \A k \in 1..Len(SavedSchedule) :
              /\ schedule.meetings[k].id = SavedSchedule[k].id
              /\ LoadedDay(k) = DayOf(SavedSchedule[k].date)
              /\ schedule.meetings[k].duties = SavedSchedule[k].duties
        /\ schedule.conflicts = conflicts

----------------------------------------------------------------------------
(* The order of the assignment loop *)

\* the roles decided so far in the meeting the loop is at
DecidedNow ==
    IF CurrentMeeting.id \in DOMAIN scheduleAssignments
    THEN DOMAIN scheduleAssignments[CurrentMeeting.id]
    ELSE {}

PoolSizeOf(r) == Cardinality(roles[r].peopleIds)

\* C23: the loop takes the occurrences in ascending date order, each one
\* completely before the next, and within an occurrence a role with strictly
\* fewer qualified people is decided before a role with more; so when the
\* larger-pool role takes a person, the smaller-pool role has been decided
\* and did not take that person.
C23_MostConstrainedFirst ==
    (pc = "loop" /\ meetingIndex <= Len(meetings) /\ roleIndex >= 1) =>
        /\ \A k \in 1..Len(meetings) :
              /\ k < meetingIndex =>
                    /\ meetings[k].date < CurrentMeeting.date
                    /\ DOMAIN scheduleAssignments[meetings[k].id] = DOMAIN roles
              /\ k > meetingIndex =>
                    /\ meetings[k].date > CurrentMeeting.date
                    /\ meetings[k].id \notin DOMAIN scheduleAssignments
        /\ \A r1, r2 \in DOMAIN roles :
              (PoolSizeOf(r1) < PoolSizeOf(r2) /\ r2 \in DecidedNow) =>
                  /\ r1 \in DecidedNow
                  /\ LET holder == scheduleAssignments[CurrentMeeting.id][r2]
                     IN  holder # NoPerson =>
                             scheduleAssignments[CurrentMeeting.id][r1] # holder

\* C23 witness: in the second meeting, the second role of the caller's
\* array has the smaller pool, has been decided first and took a person who
\* is qualified for the first role too, which is still to be decided.
C23_Witness ==
    /\ pc = "loop" /\ meetingIndex = 2 /\ Len(meetings) >= 2 /\ Len(roles) >= 2
    /\ roleIndex = 2
    /\ PoolSizeOf(2) < PoolSizeOf(1)
    /\ DecidedNow = {2}
    /\ scheduleAssignments[CurrentMeeting.id][2] \in roles[1].peopleIds

----------------------------------------------------------------------------
(* The choice among near ties *)

\* the highest score among the people who pass the hard constraints
CurrentTopScore ==
    CHOOSE t \in { CurrentScore(p) : p \in CurrentValid } :
        \A p \in CurrentValid : CurrentScore(p) <= t

\* less than 5 points below the highest score
NearTop(p) ==
    CurrentTopScore - CurrentScore(p) < SimilarScoreTolerance * ScoreScale

\* the call for the current role has an outcome that assigns p
CanBeChosen(p) ==
    \E res \in assignRoleToMeeting(CurrentMeeting, CurrentRole, peopleState,
                   scheduleAssignments, meetings, meetingIndex,
                   groupedRolePreferences, conflicts) :
        res.duty.personId = p

\* C24: whenever a role is being assigned, a person who passes the hard
\* constraints can be the one chosen exactly when their score is less than
\* 5 points below the highest score among those people, and the person an
\* assignment step records is always such a person.
C24_NearTieChoice ==
    /\ [](AssigningRole =>
             \A p \in CurrentValid : CanBeChosen(p) <=> NearTop(p))
    /\ [][(AssigningRole /\ AssignedNow # NoPerson) =>
             (AssignedNow \in CurrentValid /\ NearTop(AssignedNow))]_vars

\* C24 witness: a role is being assigned with three people passing the hard
\* constraints, two of them within the tolerance of the highest score and
\* one further below.
C24_Witness ==
    /\ AssigningRole
    /\ \E p, q, x \in CurrentValid :
          /\ p # q
          /\ NearTop(p) /\ NearTop(q) /\ ~NearTop(x)

----------------------------------------------------------------------------
(* The working state of the people *)

\* the working state with which the assignment loop starts: the copies of
\* the caller's records, after the lookback when a schedule is extended
LoopStartState ==
    LET st0 == [state  |-> [p \in DOMAIN people |-> CopyPerson(people[p])],
                caller |-> people]
    IN  IF Len(existingSchedule) > 0
        THEN LookbackPhase(ResetCounts(st0),
                           LookbackMeetings(existingSchedule)).state
        ELSE st0.state

\* the meetings in which the loop of this run has given roleId to who
AssignedSoFar(who, roleId) ==
    { k \in 1..Len(meetings) :
        /\ meetings[k].id \in DOMAIN scheduleAssignments
        /\ roleId \in DOMAIN scheduleAssignments[meetings[k].id]
        /\ scheduleAssignments[meetings[k].id][roleId] = who }

\* C25: from the start of the assignment loop on, the working count of
\* every person for every role is its value at the start of the loop plus
\* the number of duties the loop has given that person for that role, and
\* the working last-assigned date is the date of the latest of those duties
\* (the value at the start of the loop when there is none); a duty left
\* unfilled counts for nobody.
C25_WorkingCounts ==
    (pc \notin {"start", "lookback"}) =>
        LET atStart == LoopStartState
        IN  \A p \in DOMAIN peopleState, r \in DOMAIN roles :
                LET given == AssignedSoFar(p, r)
                IN  /\ peopleState[p].assignmentCount[r] =
                           atStart[p].assignmentCount[r] + Cardinality(given)
                    /\ peopleState[p].lastAssigned[r] =
                           IF given = {} THEN atStart[p].lastAssigned[r]
                           ELSE meetings[CHOOSE k \in given :
                                             \A j \in given : j <= k].date

\* C25 witness: a schedule is returned in which a person who started the
\* loop with a count above zero for a role was given that role again, and
\* another duty stayed unfilled.
C25_Witness ==
    /\ Returned
    /\ \E p \in DOMAIN peopleState, r \in DOMAIN roles :
          /\ LoopStartState[p].assignmentCount[r] > 0
          /\ AssignedSoFar(p, r) # {}
    /\ \E r \in DOMAIN roles : AssignedSoFar(NoPerson, r) # {}

----------------------------------------------------------------------------
(* The weights of the scoring terms *)

CurrentEligible == eligiblePeople(CurrentRole, peopleState)

FewerTotal(p, q) ==
    totalAssignments(peopleState[p]) < totalAssignments(peopleState[q])

\* C26 (as claimed): for a role without grouping, a candidate with fewer
\* total assignments across all roles always outscores a candidate with
\* more, whatever the lower-priority terms of the two.
C26_TotalAlwaysDecides ==
    (AssigningRole /\ ~CurrentRole.allowGrouping) =>
        \A p, q \in CurrentEligible :
            FewerTotal(p, q) => CurrentScore(p) > CurrentScore(q)

\* the two candidates have the same count for the current role and the
\* same role-diversity term
SameRoleTerms(p, q) ==
    /\ peopleState[p].assignmentCount[CurrentRole.id] =
           peopleState[q].assignmentCount[CurrentRole.id]
    /\ DiversityTerm(peopleState[p], CurrentRole) =
           DiversityTerm(peopleState[q], CurrentRole)

\* C26 (amended): for a role without grouping and two candidates with the
\* same count for the role and the same role-diversity term, the one with
\* fewer total assignments across all roles outscores the other, whatever
\* their recency terms.
C26_TotalDecidesOverRecency ==
    (AssigningRole /\ ~CurrentRole.allowGrouping) =>
        \A p, q \in CurrentEligible :
            (FewerTotal(p, q) /\ SameRoleTerms(p, q)) =>
                CurrentScore(p) > CurrentScore(q)

\* C26 witness: a role without grouping is being assigned, and of two
\* candidates with the same count for it and the same role-diversity term
\* the one with fewer total assignments has the worse recency term.
C26_Witness ==
    /\ AssigningRole /\ ~CurrentRole.allowGrouping
    /\ \E p, q \in CurrentEligible :
          /\ FewerTotal(p, q) /\ SameRoleTerms(p, q)
          /\ RecencyTerm(peopleState[p], CurrentRole, CurrentMeeting.date) <
                 RecencyTerm(peopleState[q], CurrentRole, CurrentMeeting.date)

----------------------------------------------------------------------------
(* The debounced save to the backend: services/api.js, dataManager.js *)

\* the clock ticks this many times a second
TicksPerSecond == 2

\* const SAVE_DELAY = 1000, in milliseconds
SAVE_DELAY == 1000

\* SAVE_DELAY in ticks of the clock
SaveDelayTicks == (SAVE_DELAY * TicksPerSecond) \div 1000

\* the number of calls of saveData in a run, and the last tick at which a
\* save is asked for
MaxCalls == 3
MaxCallTime == 3

\* the application states handed to a save
SaveValues == {"a", "b"}

InitSave ==
    /\ pc = "idle"
    /\ startDate = DateInput(FirstDay, HomeZone) /\ weeks = MaxWeeks
    /\ settings = DefaultMeetingDays /\ locked = FALSE
    /\ cancelledDates = {} /\ specialMeetings = <<>> /\ omittedDates = {}
    /\ people = <<>> /\ roles = <<>>
    /\ existingSchedule = <<>> /\ meetingDates = <<>>
    /\ WorkIdle /\ StoreIdle /\ AppIdle /\ SaveIdle

\* the timer kept as it is
clearTimeout_none(cs, timer) == cs

\* clearTimeout(saveTimer): a timer that has not fired yet never will
clearTimeout(cs, timer) ==
    [k \in 1..Len(cs) |->
        IF k = timer /\ cs[k].timer = "armed"
        THEN [cs[k] EXCEPT !.timer = "cleared"]
        ELSE cs[k]]

\* api.js lines 14-45: the body of saveData(data) up to the return of the
\* new promise; the calls after it, and the value of saveTimer
saveData(data, cs, timer, time) ==
    [calls     |-> Append(IF timer # 0 THEN clearTimeout(cs, timer) ELSE cs,
                          [data |-> data, at |-> time, timer |-> "armed",
                           deadline |-> time + SaveDelayTicks,
                           promise |-> "pending"]),
     saveTimer |-> Len(cs) + 1]

\* a call of saveData or of saveAppState can still be made
CanCall ==
    /\ now <= MaxCallTime
    /\ Len(calls) + (IF appTimer.armed THEN 1 ELSE 0) < MaxCalls

\* saveData(data) called directly
SaveData ==
    /\ CanCall
    /\ \E data \in SaveValues :
          LET after == saveData(data, calls, saveTimer, now)
          IN  calls' = after.calls /\ saveTimer' = after.saveTimer
    /\ UNCHANGED <<pc, dateVars, meetingDates, callerVars, workVars, storeVars,
                   appVars, now, requests, appTimer>>

\* dataManager.js lines 10-34: saveAppState clears its own timer and sets
\* a new one
SaveAppState ==
    /\ CanCall \/ (appTimer.armed /\ now <= MaxCallTime)
    /\ \E data \in SaveValues :
          appTimer' = [armed |-> TRUE, deadline |-> now + SaveDelayTicks,
                       data |-> data]
    /\ UNCHANGED <<pc, dateVars, meetingDates, callerVars, workVars, storeVars,
                   appVars, now, calls, saveTimer, requests>>

\* dataManager.js lines 17-33: the timer of saveAppState fires and its
\* callback calls saveData(appState)
AppTimerFires ==
    /\ appTimer.armed /\ now >= appTimer.deadline
    /\ appTimer' = [appTimer EXCEPT !.armed = FALSE]
    /\ LET after == saveData(appTimer.data, calls, saveTimer, now)
       IN  calls' = after.calls /\ saveTimer' = after.saveTimer
    /\ UNCHANGED <<pc, dateVars, meetingDates, callerVars, workVars, storeVars,
                   appVars, now, requests>>

\* api.js lines 22-30: the timer of a call fires and the request is issued
TimerFires ==
    /\ \E k \in 1..Len(calls) :
          /\ calls[k].timer = "armed" /\ now >= calls[k].deadline
          /\ calls' = [calls EXCEPT ![k].timer = "fired"]
          /\ requests' = Append(requests,
                                [call |-> k, data |-> calls[k].data, at |-> now])
    /\ UNCHANGED <<pc, dateVars, meetingDates, callerVars, workVars, storeVars,
                   appVars, now, saveTimer, appTimer>>

\* api.js lines 32-42: the fetch of a call ends; the promise is resolved
\* with the result, or rejected when the response is not ok or fetch threw
FetchCompletes ==
    /\ \E k \in 1..Len(calls), ok \in BOOLEAN :
          /\ calls[k].timer = "fired" /\ calls[k].promise = "pending"
          /\ calls' = [calls EXCEPT ![k].promise =
                                       IF ok THEN "resolved" ELSE "rejected"]
    /\ UNCHANGED <<pc, dateVars, meetingDates, callerVars, workVars, storeVars,
                   appVars, now, saveTimer, requests, appTimer>>

\* a timer is due at the present tick
TimerDue ==
    \/ appTimer.armed /\ now >= appTimer.deadline
    \/ \E k \in 1..Len(calls) : calls[k].timer = "armed" /\ now >= calls[k].deadline

\* time passes; a timer that is due fires before it does. The clock runs
\* until every timer set by MaxCallTime has had its time
Tick ==
    /\ ~TimerDue
    /\ now < MaxCallTime + 2 * SaveDelayTicks
    /\ now' = now + 1
    /\ UNCHANGED <<pc, dateVars, meetingDates, callerVars, workVars, storeVars,
                   appVars, calls, saveTimer, requests, appTimer>>

NextSave ==
    \/ SaveData \/ SaveAppState \/ AppTimerFires \/ TimerFires
    \/ FetchCompletes \/ Tick

SpecSave == InitSave /\ [][NextSave]_vars

\* the event loop runs every timer that is due, every fetch ends, and time
\* goes on
SpecSaveFair ==
    /\ SpecSave
    /\ WF_vars(AppTimerFires) /\ WF_vars(TimerFires)
    /\ WF_vars(FetchCompletes) /\ WF_vars(Tick)

----------------------------------------------------------------------------
(* Manual changes in the schedule table *)

\* the duties generateSchedule can leave in a meeting: nobody twice, and a
\* role that stayed unfilled carries the conflict flag
GeneratedDuties ==
    { [r \in RoleIds |-> createDuty(who[r], FALSE, who[r] = NoPerson)] :
        who \in { f \in [RoleIds -> FullPool \cup {NoPerson}] :
                     \A r1, r2 \in RoleIds :
                         (r1 # r2 /\ f[r1] # NoPerson) => f[r1] # f[r2] } }

\* a generated schedule of the first Thursday and Sunday is on display;
\* every role has the people of FullPool qualified
InitManual ==
    /\ pc = "idle"
    /\ startDate = DateInput(FirstDay, HomeZone) /\ weeks = MaxWeeks
    /\ settings = DefaultMeetingDays /\ locked = TRUE
    /\ cancelledDates = {} /\ specialMeetings = <<>> /\ omittedDates = {}
    /\ roles = RoleRecords([r \in RoleIds |-> FullPool], [r \in RoleIds |-> FALSE])
    /\ people = PersonRecords(roles, AlwaysAvailable, FreshStored)
    /\ existingSchedule = <<>> /\ meetingDates = <<>>
    /\ WorkIdle /\ SaveIdle /\ AppIdle
    /\ storage = NoStorage /\ zone = HomeZone
    /\ \E first \in GeneratedDuties, second \in GeneratedDuties :
          schedule =
              [present   |-> TRUE,
               meetings  |-> << [id |-> 1, date |-> DateObject(Midnight(FirstDay)),
                                 day |-> Thursday, type |-> "regular",
                                 duties |-> first],
                                [id |-> 2, date |-> DateObject(Midnight(FirstDay + 3)),
                                 day |-> Sunday, type |-> "regular",
                                 duties |-> second] >>,
               conflicts |-> <<>>]

\* checkForConflict(meeting, currentRoleId, personId)
checkForConflict(meeting, currentRoleId, personId) ==
    IF personId = NoPerson THEN FALSE
    ELSE \E roleId \in DOMAIN meeting.duties :
             roleId # currentRoleId /\ meeting.duties[roleId].personId = personId

\* ScheduleTable.jsx: handleAssignmentChange(meetingId, roleId, newPersonId),
\* called when the select of a cell changes to a qualified person or to
\* "Unassigned"
HandleAssignmentChange ==
    /\ pc \in {"idle", "saved"}
    /\ \E k \in 1..Len(schedule.meetings), roleId \in DOMAIN roles,
          newPersonId \in PersonIds \cup {NoPerson} :
          /\ newPersonId \in roles[roleId].peopleIds \cup {NoPerson}
          /\ newPersonId # schedule.meetings[k].duties[roleId].personId
          /\ schedule' =
                 [schedule EXCEPT !.meetings[k].duties[roleId] =
                     createDuty(newPersonId, TRUE,
                                checkForConflict(schedule.meetings[k], roleId,
                                                 newPersonId))]
    /\ pc' = "scheduled"
    /\ UNCHANGED <<dateVars, meetingDates, callerVars, workVars, storage, zone,
                   appVars, saveVars>>

NextManual == HandleAssignmentChange \/ AutoSave

SpecManual == InitManual /\ [][NextManual]_vars

----------------------------------------------------------------------------
(* The lock of the meeting days *)

\* the step is a call of updateMeetingDays
UpdateMeetingDaysCalled == ops' = Append(ops, "updateMeetingDays")

----------------------------------------------------------------------------
(* The conflict records of the schedule *)

\* only operations of these kinds have been carried out
OnlyOps(kinds) == SeqRange(ops) \subseteq kinds

ScheduleIds == { schedule.meetings[k].id : k \in 1..Len(schedule.meetings) }

\* C27: after any sequence of generate, extend, deleteLastMeetings and
\* clearHistoricMeetings operations, every conflict record of the schedule
\* names a meeting that is in the schedule's meeting list.
C27_ConflictsNameMeetings ==
    OnlyOps({"generate", "extend", "deleteLast", "clearHistoric"}) =>
        \A k \in 1..Len(schedule.conflicts) :
            schedule.conflicts[k].meetingId \in ScheduleIds

----------------------------------------------------------------------------
(* The dates of the schedule *)

\* the calendar day of the k-th meeting of the schedule
MeetingDay(k) == DayOf(NewDate(schedule.meetings[k].date, zone))

OmittedDays == { DayOf(t) : t \in omittedDates }

\* C28: with the omitted and special dates held fixed, after any sequence
\* of generate, extend and deleteLastMeetings operations the meetings of the
\* schedule are strictly increasing in date, and every day between the
\* first and the last meeting that falls on a configured meeting weekday
\* and is not omitted has a meeting.
C28_NoGap ==
    (OnlyOps({"generate", "extend", "deleteLast"}) /\ HasMeetings) =>
        /\ \A k \in 1..(Len(schedule.meetings) - 1) :
              MeetingDay(k) < MeetingDay(k + 1)
        /\ \A day \in MeetingDay(1)..MeetingDay(Len(schedule.meetings)) :
              (day % 7 \in {settings.midweek, settings.weekend}
                   /\ day \notin OmittedDays) =>
                  \E k \in 1..Len(schedule.meetings) : MeetingDay(k) = day

----------------------------------------------------------------------------
(* The conflict flag of manual assignments *)

\* the person of the duty holds another role of the same meeting as well
DoubleBooked(meeting, roleId) ==
    \E other \in DOMAIN meeting.duties :
        /\ other # roleId
        /\ meeting.duties[other].personId = meeting.duties[roleId].personId

\* C29: after any sequence of manual assignment changes, the hasConflict
\* flag of every filled duty is true exactly when the person of the duty is
\* assigned to another role of the same meeting as well.
C29_FlagIsDoubleBooking ==
    \A k \in 1..Len(schedule.meetings) :
        \A roleId \in DOMAIN schedule.meetings[k].duties :
            schedule.meetings[k].duties[roleId].personId # NoPerson =>
                (schedule.meetings[k].duties[roleId].hasConflict
                     <=> DoubleBooked(schedule.meetings[k], roleId))

----------------------------------------------------------------------------
(* The debounce of saveData *)

\* the requests issued for the k-th call of saveData
RequestsOf(k) == { q \in 1..Len(requests) : requests[q].call = k }

\* a later call of saveData came less than SAVE_DELAY after the k-th
Superseded(k) ==
    \E j \in (k + 1)..Len(calls) : calls[j].at - calls[k].at < SaveDelayTicks

\* C22: of calls of saveData made less than one second apart, only the
\* last leads to a request: a call followed by another within less than
\* SAVE_DELAY is never sent, every request carries the data of its call and
\* is issued exactly SAVE_DELAY after it, and a call that no other call
\* followed within SAVE_DELAY has had its single request once that time is
\* over.
C22_Debounced ==
    /\ \A q \in 1..Len(requests) :
          /\ requests[q].data = calls[requests[q].call].data
          /\ requests[q].at = calls[requests[q].call].at + SaveDelayTicks
    /\ \A k \in 1..Len(calls) :
          /\ Cardinality(RequestsOf(k)) <= 1
          /\ Superseded(k) => RequestsOf(k) = {}
          /\ (now > calls[k].at + SaveDelayTicks
                 /\ ~\E j \in (k + 1)..Len(calls) :
                        calls[j].at - calls[k].at <= SaveDelayTicks)
                => RequestsOf(k) # {}

\* C22 witness: three calls were made within less than a second of one
\* another with different data, and the only request carries the data of
\* the last, one second after it.
C22_Witness ==
    /\ Len(calls) = 3 /\ Len(requests) = 1
    /\ calls[1].at < calls[2].at /\ calls[2].at < calls[3].at
    /\ calls[3].at - calls[1].at < 2 * SaveDelayTicks
    /\ Superseded(1) /\ Superseded(2)
    /\ calls[2].data # calls[3].data
    /\ requests[1].call = 3 /\ requests[1].at = calls[3].at + SaveDelayTicks

\* saveData has been called k times
Called(k) == Len(calls) >= k

\* the promise returned by the k-th call of saveData is resolved or rejected
Settled(k) == Called(k) /\ calls[k].promise # "pending"

\* C30: the promise of every call of saveData is eventually resolved or
\* rejected, the promise of a call superseded within the delay included.
C30_EveryPromiseSettles ==
    \A k \in 1..MaxCalls : Called(k) ~> Settled(k)

====
